---------------------------- MODULE Spec2Model ----------------------------
(***************************************************************************)
(* Financial planning engine of the Raisket backend                        *)
(* (raisket-backend/app/api/workflows.py): the amortization simulator, the *)
(* compound-interest projector and the debt / budget / investment request  *)
(* handlers with their awaited narrative (LLM) call.                       *)
(*                                                                         *)
(* Python floats are IEEE-754 binary64 values.  They are modelled exactly: *)
(* a float is a record [s, m, e] that denotes (-1)^s * m * 2^e, where m is *)
(* a natural number of at most 53 bits kept as a little-endian sequence of *)
(* 15-bit limbs (TLC integers are 32 bits wide) and is odd unless the      *)
(* value is zero.  Every arithmetic operator computes the exact result and *)
(* rounds it to nearest, ties to even, as the hardware does.  Exponent     *)
(* overflow, subnormals, infinities and NaN are outside the value ranges   *)
(* drawn by the specifications and are not modelled.                       *)
(***************************************************************************)
EXTENDS Integers, Sequences, FiniteSets, TLC

-----------------------------------------------------------------------------
(* Natural numbers of arbitrary size: little-endian limb sequences, no     *)
(* high zero limb, zero is << >>.                                          *)

LimbBits == 5 * 3
Base == 128 * 256

RECURSIVE Pow2(_)
Pow2(n) == IF n = 0 THEN 1 ELSE 2 * Pow2(n - 1)

RECURSIVE BNorm(_)
BNorm(a) ==
    IF a = << >> THEN << >>
    ELSE IF a[Len(a)] = 0 THEN BNorm(SubSeq(a, 1, Len(a) - 1))
    ELSE a

RECURSIVE BFromInt(_)
BFromInt(n) == IF n = 0 THEN << >> ELSE <<n % Base>> \o BFromInt(n \div Base)

RECURSIVE BToInt(_)
BToInt(a) == IF a = << >> THEN 0 ELSE Head(a) + Base * BToInt(Tail(a))

BLimb(a, i) == IF i <= Len(a) THEN a[i] ELSE 0

RECURSIVE BAddFrom(_, _, _, _)
BAddFrom(a, b, i, c) ==
    IF i > Len(a) /\ i > Len(b)
    THEN IF c = 0 THEN << >> ELSE <<c>>
    ELSE LET t == BLimb(a, i) + BLimb(b, i) + c
         IN  <<t % Base>> \o BAddFrom(a, b, i + 1, t \div Base)

BAdd(a, b) == BAddFrom(a, b, 1, 0)

RECURSIVE BSubFrom(_, _, _, _)
BSubFrom(a, b, i, c) ==
    IF i > Len(a) THEN << >>
    ELSE LET t == a[i] - BLimb(b, i) - c
         IN  IF t < 0 THEN <<t + Base>> \o BSubFrom(a, b, i + 1, 1)
             ELSE <<t>> \o BSubFrom(a, b, i + 1, 0)

\* a - b for a >= b
BSub(a, b) == BNorm(BSubFrom(a, b, 1, 0))

RECURSIVE BCmpFrom(_, _, _)
BCmpFrom(a, b, i) ==
    IF i = 0 THEN 0
    ELSE IF a[i] < b[i] THEN -1
    ELSE IF a[i] > b[i] THEN 1
    ELSE BCmpFrom(a, b, i - 1)

\* -1, 0, 1 as a < b, a = b, a > b
BCmp(a, b) ==
    IF Len(a) < Len(b) THEN -1
    ELSE IF Len(a) > Len(b) THEN 1
    ELSE BCmpFrom(a, b, Len(a))

RECURSIVE BMulSmallFrom(_, _, _, _)
BMulSmallFrom(a, k, i, c) ==
    IF i > Len(a)
    THEN IF c = 0 THEN << >> ELSE <<c>>
    ELSE LET t == a[i] * k + c
         IN  <<t % Base>> \o BMulSmallFrom(a, k, i + 1, t \div Base)

\* a * k for 0 <= k < Base
BMulSmall(a, k) == IF k = 0 THEN << >> ELSE BMulSmallFrom(a, k, 1, 0)

RECURSIVE BMulFrom(_, _, _)
BMulFrom(a, b, j) ==
    IF j > Len(b) THEN << >>
    ELSE LET rest == BMulFrom(a, b, j + 1)
         IN  BAdd(BMulSmall(a, b[j]),
                  IF rest = << >> THEN << >> ELSE <<0>> \o rest)

BMul(a, b) == IF a = << >> \/ b = << >> THEN << >> ELSE BMulFrom(a, b, 1)

RECURSIVE BZeros(_)
BZeros(n) == IF n = 0 THEN << >> ELSE <<0>> \o BZeros(n - 1)

\* a * 2^n
BShl(a, n) ==
    IF a = << >> THEN << >>
    ELSE BZeros(n \div LimbBits) \o BMulSmall(a, Pow2(n % LimbBits))

RECURSIVE BDivSmallFrom(_, _, _, _)
BDivSmallFrom(a, d, i, r) ==
    IF i = 0 THEN [q |-> << >>, r |-> r]
    ELSE LET t == r * Base + a[i]
             lo == BDivSmallFrom(a, d, i - 1, t % d)
         IN  [q |-> Append(lo.q, t \div d), r |-> lo.r]

\* quotient and remainder of a by d, 0 < d <= Base
BDivSmall(a, d) ==
    LET x == BDivSmallFrom(a, d, Len(a), 0)
    IN  [q |-> BNorm(x.q), r |-> x.r]

\* floor(a / 2^n)
BShr(a, n) ==
    LET k == n \div LimbBits
    IN  IF k >= Len(a) THEN << >>
        ELSE BDivSmall(SubSeq(a, k + 1, Len(a)), Pow2(n % LimbBits)).q

RECURSIVE IntBitLen(_)
IntBitLen(n) == IF n = 0 THEN 0 ELSE 1 + IntBitLen(n \div 2)

BBitLen(a) ==
    IF a = << >> THEN 0 ELSE LimbBits * (Len(a) - 1) + IntBitLen(a[Len(a)])

\* bit i (0 = least significant) of a
BBit(a, i) ==
    LET k == i \div LimbBits + 1
    IN  IF k > Len(a) THEN 0 ELSE (a[k] \div Pow2(i % LimbBits)) % 2

\* a mod 2^n
BLow(a, n) ==
    LET k == n \div LimbBits
        r == n % LimbBits
    IN  IF k >= Len(a) THEN a
        ELSE BNorm(SubSeq(a, 1, k)
                   \o (IF r = 0 THEN << >> ELSE <<a[k + 1] % Pow2(r)>>))

RECURSIVE BTrailingZeros(_)
BTrailingZeros(a) ==
    IF a = << >> THEN 0
    ELSE IF a[1] = 0 THEN LimbBits + BTrailingZeros(Tail(a))
    ELSE IF a[1] % 2 = 0 THEN 1 + BTrailingZeros(<<a[1] \div 2>>)
    ELSE 0

\* the largest t in lo..hi with d * t <= r, given d * lo <= r < d * (hi + 1)
RECURSIVE BDigit(_, _, _, _)
BDigit(r, d, lo, hi) ==
    IF lo = hi THEN lo
    ELSE LET mid == (lo + hi + 1) \div 2
         IN  IF BCmp(BMulSmall(d, mid), r) <= 0
             THEN BDigit(r, d, mid, hi)
             ELSE BDigit(r, d, lo, mid - 1)

RECURSIVE BDivModFrom(_, _, _, _)
BDivModFrom(a, d, i, r) ==
    IF i = 0 THEN [q |-> << >>, r |-> r]
    ELSE LET r2 == BNorm(<<a[i]>> \o r)
             t  == BDigit(r2, d, 0, Base - 1)
             lo == BDivModFrom(a, d, i - 1, BSub(r2, BMulSmall(d, t)))
         IN  [q |-> Append(lo.q, t), r |-> lo.r]

\* quotient and remainder of a by d > 0 (long division, one limb a step)
BDivMod(a, d) ==
    LET x == BDivModFrom(a, d, Len(a), << >>)
    IN  [q |-> BNorm(x.q), r |-> x.r]

-----------------------------------------------------------------------------
(* IEEE-754 binary64 arithmetic (Python float).                            *)

MantBits == 53

FZero == [s |-> 0, m |-> << >>, e |-> 0]

\* 0.0 or -0.0
IsZero(x) == x.m = << >>

\* the float (-1)^s * m * 2^e, m of at most MantBits bits, in canonical form
\* (m = 0 gives the zero of sign s)
FCanon(s, m, e) ==
    IF m = << >> THEN [s |-> s, m |-> << >>, e |-> 0]
    ELSE LET tz == BTrailingZeros(m)
         IN  [s |-> s, m |-> BShr(m, tz), e |-> e + tz]

\* The float nearest to (-1)^s * (M + f) * 2^E, ties to even, where
\* 0 <= f < 1 and f > 0 exactly when sticky holds.
FRound(s, M, E, sticky) ==
    IF M = << >> THEN FCanon(s, M, 0)
    ELSE LET L0 == BBitLen(M)
             k  == IF sticky /\ L0 < MantBits + 2 THEN MantBits + 2 - L0 ELSE 0
             N  == BShl(M, k)
             L  == L0 + k
         IN  IF L <= MantBits THEN FCanon(s, N, E - k)
             ELSE LET sh    == L - MantBits
                      q     == BShr(N, sh)
                      guard == BBit(N, sh - 1)
                      rest  == sticky \/ BLow(N, sh - 1) # << >>
                      up    == guard = 1 /\ (rest \/ BBit(q, 0) = 1)
                  IN  FCanon(s, IF up THEN BAdd(q, <<1>>) ELSE q, E - k + sh)

\* int -> float
FInt(n) ==
    FRound(IF n < 0 THEN 1 ELSE 0, BFromInt(IF n < 0 THEN -n ELSE n), 0, FALSE)

FNeg(x) == [x EXCEPT !.s = 1 - x.s]

\* -1, 0, 1 as |a| < |b|, |a| = |b|, |a| > |b|
FCmpMag(a, b) ==
    IF IsZero(a) THEN (IF IsZero(b) THEN 0 ELSE -1)
    ELSE IF IsZero(b) THEN 1
    ELSE LET la == BBitLen(a.m) + a.e
             lb == BBitLen(b.m) + b.e
         IN  IF la < lb THEN -1
             ELSE IF la > lb THEN 1
             ELSE LET lo == IF a.e < b.e THEN a.e ELSE b.e
                  IN  BCmp(BShl(a.m, a.e - lo), BShl(b.m, b.e - lo))

\* -1, 0, 1 as a < b, a = b, a > b
FCmp(a, b) ==
    IF IsZero(a) /\ IsZero(b) THEN 0
    ELSE IF IsZero(a) THEN (IF b.s = 1 THEN 1 ELSE -1)
    ELSE IF IsZero(b) THEN (IF a.s = 1 THEN -1 ELSE 1)
    ELSE IF a.s # b.s THEN (IF a.s = 1 THEN -1 ELSE 1)
    ELSE IF a.s = 0 THEN FCmpMag(a, b) ELSE FCmpMag(b, a)

FLt(a, b) == FCmp(a, b) < 0
FLe(a, b) == FCmp(a, b) <= 0
FGt(a, b) == FCmp(a, b) > 0
FGe(a, b) == FCmp(a, b) >= 0
\* a + b; a sum that is exactly zero is 0.0, except -0.0 + -0.0 = -0.0
FAdd(a, b) ==
    IF IsZero(a) /\ IsZero(b)
    THEN (IF a.s = 1 /\ b.s = 1 THEN a ELSE FZero)
    ELSE IF IsZero(a) THEN b
    ELSE IF IsZero(b) THEN a
    ELSE LET lo == IF a.e < b.e THEN a.e ELSE b.e
             A  == BShl(a.m, a.e - lo)
             B  == BShl(b.m, b.e - lo)
             c  == IF a.s = b.s THEN 1 ELSE BCmp(A, B)
         IN  IF c = 0 THEN FZero
             ELSE FRound(IF c > 0 THEN a.s ELSE b.s,
                         IF a.s = b.s THEN BAdd(A, B)
                         ELSE IF c > 0 THEN BSub(A, B) ELSE BSub(B, A),
                         lo, FALSE)

FSub(a, b) == FAdd(a, FNeg(b))

FMul(a, b) ==
    IF IsZero(a) \/ IsZero(b) THEN FCanon((a.s + b.s) % 2, << >>, 0)
    ELSE FRound((a.s + b.s) % 2, BMul(a.m, b.m), a.e + b.e, FALSE)

\* a / b for b # 0 (Python raises ZeroDivisionError for b = 0: the callers
\* test IsZero(b) first)
FDiv(a, b) ==
    IF IsZero(a) THEN FCanon((a.s + b.s) % 2, << >>, 0)
    ELSE LET k  == MantBits + 2 + BBitLen(b.m) - BBitLen(a.m)
             kk == IF k < 0 THEN 0 ELSE k
             qr == BDivMod(BShl(a.m, kk), b.m)
         IN  FRound((a.s + b.s) % 2, qr.q, a.e - b.e - kk, qr.r # << >>)

FMax(a, b) == IF FGt(b, a) THEN b ELSE a

\* round(x * 10^digits) as Python's round(x, digits) and the 'f' format
\* take it: the exact binary value rounded to an integer, ties to even.
\* The result is the natural number |round(x * 10^digits)|.
RoundScaled(x, scale) ==
    IF IsZero(x) THEN << >>
    ELSE LET N == BMul(x.m, BFromInt(scale))
         IN  IF x.e >= 0 THEN BShl(N, x.e)
             ELSE LET sh    == -x.e
                      q     == BShr(N, sh)
                      guard == BBit(N, sh - 1)
                      rest  == BLow(N, sh - 1) # << >>
                      up    == guard = 1 /\ (rest \/ BBit(q, 0) = 1)
                  IN  IF up THEN BAdd(q, <<1>>) ELSE q

\* Python round(x, 2): x is rounded to the decimal q / 100 (q an integer,
\* ties to even on the exact value of x) and the result is the float
\* nearest to q / 100, with the sign of x: one rounding of the quotient,
\* and -0.0 for a negative x that rounds to zero
Round2(x) ==
    CHOOSE r \in
        UNION { UNION { { IF q = << >> THEN FCanon(v.s, q, 0)
                          ELSE FRound(v.s, qr.q,
                                      (IF BBitLen(q) < MantBits + 9
                                       THEN BBitLen(q) - MantBits - 9
                                       ELSE 0),
                                      qr.r # 0) :
                            qr \in { BDivSmall(
                                        BShl(q, IF BBitLen(q) < MantBits + 9
                                                THEN MantBits + 9 - BBitLen(q)
                                                ELSE 0),
                                        100) } } :
                        q \in { RoundScaled(v, 100) } } :
                v \in { x } } : TRUE

\* the float a decimal literal n / 10^d of the source denotes
RECURSIVE Pow10(_)
Pow10(d) == IF d = 0 THEN 1 ELSE 10 * Pow10(d - 1)

FDec(n, d) == FDiv(FInt(n), FInt(Pow10(d)))

\* bits kept by the intermediate products of a power
PowBits == 8 * LimbBits

\* x * y of two [m, e, st] values (value in [m, m + 1) * 2^e, inexact when
\* st), cut down to PowBits bits
PowMul(x, y) ==
    IF x.m = << >> \/ y.m = << >> THEN [m |-> << >>, e |-> 0, st |-> FALSE]
    ELSE LET prod == BMul(x.m, y.m)
             L    == BBitLen(prod)
             sh   == IF L > PowBits THEN L - PowBits ELSE 0
         IN  [m  |-> BShr(prod, sh),
              e  |-> x.e + y.e + sh,
              st |-> x.st \/ y.st \/ BLow(prod, sh) # << >>]

PowSquare(h) == PowMul(h, h)

\* m^n by squaring, n >= 1
RECURSIVE PowAcc(_, _)
PowAcc(x, n) ==
    IF n = 1 THEN x
    ELSE IF n % 2 = 1 THEN PowMul(PowAcc(x, n - 1), x)
    ELSE PowSquare(PowAcc(x, n \div 2))

\* x ** n for an int n >= 0: float_pow calls the C library's pow, which is
\* exact when the power is a float and otherwise within one unit in the
\* last place of it, not always the nearest float (with glibc
\* 10.0 ** 23 is the float above 10^23 and 3.0 ** 34 the float above the
\* tie).  The result is the set of the floats a C library may return: the
\* power itself, or the two floats around it.  The power is computed to
\* PowBits bits.
FPow(x, n) ==
    IF n = 0 THEN {FInt(1)}
    ELSE IF IsZero(x) THEN {FCanon((x.s * n) % 2, << >>, 0)}
    ELSE UNION
           { LET s  == (x.s * n) % 2
                 sh == IF BBitLen(p.m) > MantBits
                       THEN BBitLen(p.m) - MantBits ELSE 0
             IN  { FCanon(s, q, p.e + sh) : q \in { BShr(p.m, sh) } }
                 \cup (IF p.st \/ BLow(p.m, sh) # << >>
                       THEN { FCanon(s, BAdd(q, <<1>>), p.e + sh) :
                                q \in { BShr(p.m, sh) } }
                       ELSE {}) :
               p \in { PowAcc([m |-> x.m, e |-> x.e, st |-> FALSE], n) } }

-----------------------------------------------------------------------------
(* calcular_amortizacion_deuda                                             *)

None == "None"

\* the ceiling of the loop: "mes < 600"  (50 years)
LimiteMeses == 600

ErrorPagoNoCubre == "El pago mensual no cubre el interes generado"

\* tasa_mensual = (tasa_anual / 100) / 12
TasaMensual(tasa_anual) == FDiv(FDiv(tasa_anual, FInt(100)), FInt(12))

\* the locals before the loop
AmortInicio(monto) ==
    [saldo |-> monto, mes |-> 0, total_intereses |-> FZero, error |-> FALSE]

\* a loop that forgets the ceiling
AmortContinuaSinTope(st) == FGt(st.saldo, FZero)

\* the loop condition: saldo > 0 and mes < 600
AmortContinua(st) == FGt(st.saldo, FZero) /\ st.mes < LimiteMeses

\* capital_mes <= 0: the payment does not cover the month's interest
PagoNoCubre(capital_mes) == FLe(capital_mes, FZero)

\* a loop body without "if saldo < 0: saldo = 0"
AmortPasoSinTopeEnCero(st, tasa_mensual, pago_mensual) ==
    LET interes_mes == FMul(st.saldo, tasa_mensual)
        capital_mes == FSub(pago_mensual, interes_mes)
    IN  IF PagoNoCubre(capital_mes)
        THEN [st EXCEPT !.error = TRUE]
        ELSE [saldo |-> FSub(st.saldo, capital_mes),
              mes |-> st.mes + 1,
              total_intereses |-> FAdd(st.total_intereses, interes_mes),
              error |-> FALSE]

\* one iteration of the loop body
AmortPaso(st, tasa_mensual, pago_mensual) ==
    LET interes_mes == FMul(st.saldo, tasa_mensual)
        capital_mes == FSub(pago_mensual, interes_mes)
        saldo2      == FSub(st.saldo, capital_mes)
    IN  IF PagoNoCubre(capital_mes)
        THEN [st EXCEPT !.error = TRUE]
        ELSE [saldo |-> IF FLt(saldo2, FZero) THEN FZero ELSE saldo2,
              mes |-> st.mes + 1,
              total_intereses |-> FAdd(st.total_intereses, interes_mes),
              error |-> FALSE]

\* the dictionary returned: the early return inside the loop or the final one
AmortResultado(st, monto) ==
    IF st.error
    THEN [meses |-> -1, total_intereses |-> FInt(-1), total_pagado |-> FInt(-1),
          error |-> ErrorPagoNoCubre]
    ELSE [meses |-> st.mes,
          total_intereses |-> Round2(st.total_intereses),
          total_pagado |-> Round2(FAdd(monto, st.total_intereses)),
          error |-> None]

AmortTermina(st) == st.error \/ ~AmortContinua(st)

\* at most n iterations of the loop from st
RECURSIVE AmortPasos(_, _, _, _)
AmortPasos(st, n, tasa_mensual, pago_mensual) ==
    IF n = 0 \/ AmortTermina(st) THEN st
    ELSE IF n = 1 THEN AmortPaso(st, tasa_mensual, pago_mensual)
    ELSE AmortPasos(AmortPasos(st, n \div 2, tasa_mensual, pago_mensual),
                    n - n \div 2, tasa_mensual, pago_mensual)

\* the while loop run to its end: n, 2n, 4n, ... iterations until it stops
RECURSIVE AmortBucleDesde(_, _, _, _)
AmortBucleDesde(st, n, tasa_mensual, pago_mensual) ==
    IF AmortTermina(st) THEN st
    ELSE AmortBucleDesde(AmortPasos(st, n, tasa_mensual, pago_mensual),
                         2 * n, tasa_mensual, pago_mensual)

AmortBucle(st, tasa_mensual, pago_mensual) ==
    AmortBucleDesde(st, 1, tasa_mensual, pago_mensual)

calcular_amortizacion_deuda(monto, tasa_anual, pago_mensual) ==
    AmortResultado(AmortBucle(AmortInicio(monto), TasaMensual(tasa_anual),
                              pago_mensual), monto)

-----------------------------------------------------------------------------
(* calcular_interes_compuesto                                              *)

ZeroDivisionError == "ZeroDivisionError"

\* a principal that does not grow
ValorPrincipalSinCapitalizar(principal, potencia) == principal

\* valor_principal = principal * ((1 + tasa_mensual) ** meses), potencia
\* being the value of the power
ValorPrincipal(principal, potencia) == FMul(principal, potencia)

\* the future value of the monthly contributions, potencia being the
\* value of (1 + tasa_mensual) ** meses (the same call of pow as for the
\* principal, hence the same value); the division raises
\* ZeroDivisionError when tasa_mensual is 0.0
ValorAportaciones(aportacion_mensual, tasa_mensual, potencia) ==
    IF FGt(aportacion_mensual, FZero)
    THEN IF IsZero(tasa_mensual)
         THEN [excepcion |-> ZeroDivisionError, valor |-> FZero]
         ELSE [excepcion |-> None,
               valor |->
                   FMul(aportacion_mensual,
                        FDiv(FSub(potencia, FInt(1)), tasa_mensual))]
    ELSE [excepcion |-> None, valor |-> FZero]

\* ganancia = valor_final - principal - (aportacion_mensual * meses)
Ganancia(valor_final, principal, aportacion_mensual, meses) ==
    FSub(FSub(valor_final, principal),
         FMul(aportacion_mensual, FInt(meses)))

\* lines 228-235: the dictionary returned
ResultadoCompuesto(principal, aportacion_mensual, meses, valor_principal, valor_aportaciones) ==
    [excepcion |-> None,
     valor_final |-> Round2(FAdd(valor_principal, valor_aportaciones)),
     ganancia |-> Round2(Ganancia(FAdd(valor_principal, valor_aportaciones),
                                  principal, aportacion_mensual, meses)),
     total_aportado |->
         FAdd(principal, FMul(aportacion_mensual, FInt(meses)))]

CompuestoDesdeValores(principal, aportacion_mensual, meses, valor_principal, aportaciones) ==
    IF aportaciones.excepcion # None
    THEN [excepcion |-> aportaciones.excepcion]
    ELSE ResultadoCompuesto(principal, aportacion_mensual, meses,
                            valor_principal, aportaciones.valor)

\* the dictionaries the function may return (or the exception it raises),
\* one for each value pow may give
CompuestoDesdeTasa(principal, tasa_mensual, meses, aportacion_mensual) ==
    { CompuestoDesdeValores(
          principal, aportacion_mensual, meses,
          ValorPrincipal(principal, potencia),
          ValorAportaciones(aportacion_mensual, tasa_mensual, potencia)) :
        potencia \in FPow(FAdd(FInt(1), tasa_mensual), meses) }

calcular_interes_compuesto(principal, tasa_anual, tiempo_meses, aportacion_mensual) ==
    CompuestoDesdeTasa(principal, TasaMensual(tasa_anual), tiempo_meses,
                       aportacion_mensual)

-----------------------------------------------------------------------------
(* Formatting and sequences.                                               *)

\* the text of format(x, ".df") / format(x, ",.df"): the sign and the
\* digits of x rounded to d decimals (as the natural number of 10^-d units)
Fmt(x, d) == [neg |-> x.s = 1, digitos |-> RoundScaled(x, Pow10(d))]

\* the sort orders of analyze_debt: x goes strictly before y
\* (key tasa_interes_anual with reverse=True; key monto_total)
\* an order in which a debt also goes before the debts it ties with
VaAntesOEmpata(estrategia, x, y) ==
    IF estrategia = "avalancha"
    THEN FGe(x.tasa_interes_anual, y.tasa_interes_anual)
    ELSE FLe(x.monto_total, y.monto_total)

VaAntes(estrategia, x, y) ==
    IF estrategia = "avalancha"
    THEN FGt(x.tasa_interes_anual, y.tasa_interes_anual)
    ELSE FLt(x.monto_total, y.monto_total)

\* seq with x put after the last element that x does not go before
RECURSIVE InsertarEstable(_, _, _)
InsertarEstable(seq, x, estrategia) ==
    IF seq = << >> THEN <<x>>
    ELSE IF VaAntes(estrategia, x, seq[Len(seq)])
         THEN Append(InsertarEstable(SubSeq(seq, 1, Len(seq) - 1), x,
                                     estrategia),
                     seq[Len(seq)])
         ELSE Append(seq, x)

\* list.sort: a stable sort of seq by the strategy's order
RECURSIVE OrdenarEstable(_, _)
OrdenarEstable(seq, estrategia) ==
    IF seq = << >> THEN << >>
    ELSE InsertarEstable(OrdenarEstable(SubSeq(seq, 1, Len(seq) - 1),
                                        estrategia),
                         seq[Len(seq)], estrategia)

RECURSIVE SumaFloat(_)
\* a list of floats added left to right from 0, one rounding per addition:
\* an accumulation with +=, and sum(...) up to CPython 3.11
SumaFloat(seq) ==
    IF seq = << >> THEN FZero
    ELSE FAdd(SumaFloat(SubSeq(seq, 1, Len(seq) - 1)), seq[Len(seq)])

RECURSIVE SumaCompensada(_, _, _)
\* sum(...) of a non-empty list of floats in CPython 3.12 and later, from
\* item k on.  The first item is added to the int 0; for each further item
\* x the builtin computes
\*     t = f + x
\*     c += (f - t) + x   if |f| >= |x|,   c += (x - t) + f   otherwise
\*     f = t
\* and at the end it returns f + c, or f when c is zero.  Each call makes
\* one of these additions, the one st.paso names, and goes on to the next.
SumaCompensada(seq, k, st) ==
    LET x     == seq[k]
        mayor == FCmpMag(st.f, x) >= 0
        a == CASE st.paso = "0 + x"    -> FZero
               [] st.paso = "f + x"    -> st.f
               [] st.paso = "f - t"    -> IF mayor THEN st.f ELSE x
               [] st.paso = "(f - t) + x" -> st.d
               [] st.paso = "c +="     -> st.c
               [] OTHER                -> st.f
        b == CASE st.paso = "0 + x"    -> x
               [] st.paso = "f + x"    -> x
               [] st.paso = "f - t"    -> FNeg(st.t)
               [] st.paso = "(f - t) + x" -> IF mayor THEN x ELSE st.f
               [] st.paso = "c +="     -> st.d
               [] OTHER                -> st.c
        sig == IF k < Len(seq) THEN "f + x" ELSE "f + c"
    IN  CHOOSE res \in
            { IF st.paso = "f + c"
              THEN (IF IsZero(st.c) THEN st.f ELSE r)
              ELSE SumaCompensada(
                       seq,
                       IF st.paso \in {"0 + x", "c +="} THEN k + 1 ELSE k,
                       CASE st.paso = "0 + x" ->
                                [st EXCEPT !.f = r, !.paso = sig]
                         [] st.paso = "f + x" ->
                                [st EXCEPT !.t = r, !.paso = "f - t"]
                         [] st.paso = "f - t" ->
                                [st EXCEPT !.d = r, !.paso = "(f - t) + x"]
                         [] st.paso = "(f - t) + x" ->
                                [st EXCEPT !.d = r, !.paso = "c +="]
                         [] OTHER ->
                                [st EXCEPT !.c = r, !.f = st.t, !.paso = sig]) :
                r \in { FAdd(a, b) } } : TRUE

RECURSIVE MaxInt(_)
\* max(...) of a non-empty list of ints
MaxInt(seq) ==
    IF Len(seq) = 1 THEN seq[1]
    ELSE LET m == MaxInt(SubSeq(seq, 1, Len(seq) - 1))
         IN  IF seq[Len(seq)] > m THEN seq[Len(seq)] ELSE m

-----------------------------------------------------------------------------
(* State.                                                                  *)

VARIABLES
    req,    \* the arguments of the call / the validated request record
    pc,     \* the position of the call or handler
    loc,    \* its local variables
    out,    \* what it returned or raised (None while running)
    llm,    \* the awaited narrative call: "idle", "pending", "ok", "raised"
    sims,   \* how many amortization simulations the handler has run
    python  \* the interpreter the service runs on, which the repository
            \* does not pin: "3.11" (sum() adds floats left to right) or
            \* "3.12" (sum() adds floats with compensation)

vars == <<req, pc, loc, out, llm, sims, python>>

-----------------------------------------------------------------------------
(* Bounds of the inputs drawn by the specifications.                       *)

MaxMonto == 5       \* principals 10, 20, ..., 10 * MaxMonto
MaxPago == 5        \* monthly payments 1 .. MaxPago
MaxCuotas == 10     \* equal instalments n in 1 .. MaxCuotas
MaxCapital == 3     \* principals 1 .. MaxCapital paid in n instalments

\* annual rates (%) drawn: none, 1% a month, 2% a month, 10% a month
\* Scenario B of the specification: 10000 at 24% paying 100
EscenarioB == [monto |-> FInt(10000), tasa_anual |-> FInt(24),
               pago_mensual |-> FInt(100), cuotas |-> 0]

\* inputs that reach the ceiling: zero rate with one instalment too many,
\* one instalment exactly, a payment barely above the interest, and a
\* balance of 10^16 whose payment of 10^14 + 1 repays 1 a month
EntradasLimite ==
    { [monto |-> FInt(LimiteMeses + 1), tasa_anual |-> FZero,
       pago_mensual |-> FInt(1), cuotas |-> 0],
      [monto |-> FInt(LimiteMeses), tasa_anual |-> FZero,
       pago_mensual |-> FInt(1), cuotas |-> 0],
      [monto |-> FInt(100000), tasa_anual |-> FInt(12),
       pago_mensual |-> FInt(1001), cuotas |-> 0],
      [monto |-> FMul(FInt(100000000), FInt(100000000)),
       tasa_anual |-> FInt(12),
       pago_mensual |-> FAdd(FMul(FInt(10000000), FInt(10000000)), FInt(1)),
       cuotas |-> 0] }

EntradasMalla ==
    { [monto |-> FInt(10 * m), tasa_anual |-> FInt(t),
       pago_mensual |-> FInt(p), cuotas |-> 0] :
          m \in 1..MaxMonto, t \in {0, 12, 24, 120}, p \in 1..MaxPago }

\* a caller paying principal / n a month at zero rate
EntradasCuotas ==
    { [monto |-> FInt(c), tasa_anual |-> FZero,
       pago_mensual |-> FDiv(FInt(c), FInt(n)), cuotas |-> n] :
          c \in 1..MaxCapital, n \in 1..MaxCuotas }

EntradasAmort ==
    EntradasMalla \cup EntradasCuotas \cup EntradasLimite \cup {EscenarioB}

-----------------------------------------------------------------------------
(* calcular_amortizacion_deuda run one loop iteration a step.              *)

InitAmort ==
    /\ req \in EntradasAmort
    /\ pc = "bucle"
    /\ loc = AmortInicio(req.monto)
    /\ out = None
    /\ llm = "idle"
    /\ sims = 0
    /\ python \in {"3.11", "3.12"}

\* one pass through the loop body (the early return sets loc.error)
AmortIterar ==
    /\ pc = "bucle"
    /\ ~loc.error
    /\ AmortContinua(loc)
    /\ loc' = AmortPaso(loc, TasaMensual(req.tasa_anual), req.pago_mensual)
    /\ UNCHANGED <<python, req, pc, out, llm, sims>>

\* the return statement reached: inside the loop or after it
AmortRetornar ==
    /\ pc = "bucle"
    /\ loc.error \/ ~AmortContinua(loc)
    /\ out' = AmortResultado(loc, req.monto)
    /\ pc' = "fin"
    /\ UNCHANGED <<python, req, loc, llm, sims>>

NextAmort == AmortIterar \/ AmortRetornar

SpecAmort == InitAmort /\ [][NextAmort]_vars

-----------------------------------------------------------------------------
(* calcular_interes_compuesto as a state machine: the future value of the  *)
(* principal, then the future value of the contributions (which may        *)
(* raise), then the dictionary returned.                                   *)

MaxMeses == 12      \* terms drawn: 1 .. MaxMeses, and two long ones

EntradasCompuesto ==
    { [tipo |-> "compuesto", principal |-> FInt(p), tasa_anual |-> t,
       tiempo_meses |-> m, aportacion_mensual |-> FInt(c)] :
          p \in {0, 1000, 10000},
          t \in {FZero, FInt(12), FDec(935, 2)},
          m \in (1..MaxMeses) \cup {60, 360},
          c \in {0, 100} }

InitCompuesto ==
    /\ req \in EntradasCompuesto
    /\ pc = "principal"
    /\ loc = [tasa_mensual |-> FZero, potencia |-> FZero,
              valor_principal |-> FZero, valor_aportaciones |-> FZero]
    /\ out = None
    /\ llm = "idle"
    /\ sims = 0
    /\ python \in {"3.11", "3.12"}

\* lines 214-218; potencia keeps what pow returned for
\* (1 + tasa_mensual) ** meses
CompPrincipal ==
    /\ pc = "principal"
    /\ \E tm \in { TasaMensual(req.tasa_anual) } :
          \E potencia \in FPow(FAdd(FInt(1), tm), req.tiempo_meses) :
             loc' = [loc EXCEPT
                       !.tasa_mensual = tm,
                       !.potencia = potencia,
                       !.valor_principal =
                           ValorPrincipal(req.principal, potencia)]
    /\ pc' = "aportaciones"
    /\ UNCHANGED <<python, req, out, llm, sims>>

\* lines 221-226 (pow returns for the same arguments what it returned
\* before); the exception leaves the function
CompAportaciones ==
    /\ pc = "aportaciones"
    /\ \E va \in { ValorAportaciones(req.aportacion_mensual, loc.tasa_mensual,
                                     loc.potencia) } :
          IF va.excepcion # None
          THEN /\ out' = [excepcion |-> va.excepcion]
               /\ pc' = "fin"
               /\ loc' = loc
          ELSE /\ loc' = [loc EXCEPT !.valor_aportaciones = va.valor]
               /\ pc' = "retorno"
               /\ out' = out
    /\ UNCHANGED <<python, req, llm, sims>>

\* lines 228-235
CompRetornar ==
    /\ pc = "retorno"
    /\ out' = ResultadoCompuesto(req.principal, req.aportacion_mensual,
                                 req.tiempo_meses, loc.valor_principal,
                                 loc.valor_aportaciones)
    /\ pc' = "fin"
    /\ UNCHANGED <<python, req, loc, llm, sims>>

NextCompuesto ==
    \/ CompPrincipal
    \/ CompAportaciones
    \/ CompRetornar

SpecCompuesto == InitCompuesto /\ [][NextCompuesto]_vars

-----------------------------------------------------------------------------
(* analyze_debt                                                            *)

MaxDeudas == 3      \* debts in a request: 1 .. MaxDeudas

Fallback ==
    "Analisis detallado no disponible. Revisa las recomendaciones automaticas arriba."

\* what the narrative service may answer
TextosIA == {"analisis generado"}

Deuda(nombre, monto, tasa, pago) ==
    [nombre |-> nombre, monto_total |-> FInt(monto),
     tasa_interes_anual |-> FInt(tasa), pago_minimo_mensual |-> FInt(pago)]

\* the debts drawn: two pairs tie on a sort key (tarjeta and tienda on the
\* rate, tarjeta and nomina on the principal), two debts do not cover their
\* interest (agiotista is Scenario B), one rate is above 40%
CatalogoDeudas ==
    { Deuda(d[1], d[2], d[3], d[4]) :
        d \in { <<"tarjeta", 5000, 36, 400>>,
                 <<"auto", 8000, 12, 500>>,
                 <<"nomina", 5000, 12, 300>>,
                 <<"tienda", 2000, 36, 200>>,
                 <<"agiotista", 10000, 24, 100>>,
                 <<"prestamo", 3000, 60, 100>> } }

\* the requests drawn: every list of 1 .. MaxDeudas distinct debts of the
\* catalogue with three incomes, and the orders of two groups of three
\* debts one of which is very large (monto_total has no upper limit):
\*  - 1e16 at 12% paying 1e14 + 1 a month accrues 6e16 of interest, next to
\*    which the few pesos of the other two fall below the spacing of the
\*    floats (8);
\*  - 3e17 at 10% paid off in one month accrues 2.5e15 of interest (spacing
\*    0.5), the other two 0.03 and 0.72, and its rate lies between theirs
SolicitudesDebt ==
    LET listas   == UNION { { d \in [1..n -> CatalogoDeudas] :
                                \A i, j \in 1..n : i # j => d[i] # d[j] } :
                            n \in 1..MaxDeudas }
        producto == [p \in { <<100000000, 100000000>>,
                              <<10000000, 10000000>>,
                              <<20000000, 10000000>>,
                              <<300000000, 1000000000>>,
                              <<600000000, 1000000000>>,
                              <<900000000, 1000000000>> } |->
                        FMul(FInt(p[1]), FInt(p[2]))]
        hipoteca == [Deuda("hipoteca", 1, 12, 1) EXCEPT
                        !.monto_total = producto[<<100000000, 100000000>>],
                        !.pago_minimo_mensual =
                            FAdd(producto[<<10000000, 10000000>>], FInt(1))]
        terreno  == [Deuda("terreno", 1, 10, 1) EXCEPT
                        !.monto_total = producto[<<300000000, 1000000000>>],
                        !.pago_minimo_mensual =
                            producto[<<600000000, 1000000000>>]]
        grupos   == { {hipoteca, Deuda("moto", 300, 6, 100),
                       Deuda("celular", 301, 6, 100)},
                      {terreno, Deuda("tanda", 3, 12, 100),
                       Deuda("bici", 144, 6, 200)} }
        ordenes  == UNION { { l \in [1..3 -> g] :
                                \A i, j \in 1..3 : i # j => l[i] # l[j] } :
                            g \in grupos }
        ingreso(l) == IF \E k \in 1..3 : l[k].nombre = "hipoteca"
                      THEN producto[<<20000000, 10000000>>]
                      ELSE producto[<<900000000, 1000000000>>]
    IN  { [tipo |-> "debt", deudas |-> d, ingreso_mensual |-> FInt(g),
           estrategia_preferida |-> e] :
              d \in listas, g \in {500, 700, 1000},
              e \in {"avalancha", "bola_nieve"} }
        \cup
        { [tipo |-> "debt", deudas |-> d, ingreso_mensual |-> ingreso(d),
           estrategia_preferida |-> e] :
              d \in ordenes, e \in {"avalancha", "bola_nieve"} }

DebtLocInicio ==
    [i |-> 1, deudas_analizadas |-> << >>, total_deudas |-> FZero,
     total_pagos_minimos |-> FZero, plan |-> None, analisis_ia |-> None]

\* HTTPException(400, f"Error en deuda '{deuda.nombre}': {error}")
ErrorDeudaImpagable(deuda, amortizacion) ==
    [status |-> 400, tipo |-> "DebtUnpayable", nombre |-> deuda.nombre,
     error |-> amortizacion.error]

\* a handler without "except HTTPException: raise": the exception raised
\* by the income check falls into "except Exception" and leaves as a 500
ErrorIngresoEnvuelto(total_pagos_minimos, ingreso_mensual) ==
    [status |-> 500, tipo |-> "InternalError", excepcion |-> "HTTPException"]

\* HTTPException(400, f"Los pagos minimos (${..:,.2f}) superan el ingreso
\* disponible (${..:,.2f})")
ErrorIngresoInsuficiente(total_pagos_minimos, ingreso_mensual) ==
    [status |-> 400, tipo |-> "InsufficientIncome",
     pagos |-> Fmt(total_pagos_minimos, 2),
     ingreso |-> Fmt(ingreso_mensual, 2)]

Amortizar(deuda) ==
    calcular_amortizacion_deuda(deuda.monto_total, deuda.tasa_interes_anual,
                                deuda.pago_minimo_mensual)

\* DeudaAnalisis(..., prioridad=0)
NuevaDeudaAnalisis(deuda, amortizacion) ==
    [nombre |-> deuda.nombre,
     monto_total |-> deuda.monto_total,
     tasa_interes_anual |-> deuda.tasa_interes_anual,
     interes_mensual |->
         Round2(FMul(deuda.monto_total, TasaMensual(deuda.tasa_interes_anual))),
     pago_recomendado |-> deuda.pago_minimo_mensual,
     meses_para_liquidar |-> amortizacion.meses,
     total_intereses_a_pagar |-> amortizacion.total_intereses,
     prioridad |-> 0]

\* a loop body that skips a debt it cannot amortize instead of raising
DebtPasoDeudaSinAbortar(lc, deuda, amortizacion) ==
    LET lc2 == [lc EXCEPT
            !.i = lc.i + 1,
            !.total_deudas = FAdd(lc.total_deudas, deuda.monto_total),
            !.total_pagos_minimos =
                FAdd(lc.total_pagos_minimos, deuda.pago_minimo_mensual)]
    IN  IF amortizacion.error # None
        THEN [loc |-> lc2, raised |-> FALSE, out |-> None]
        ELSE [loc |-> [lc2 EXCEPT !.deudas_analizadas =
                         Append(lc.deudas_analizadas,
                                NuevaDeudaAnalisis(deuda, amortizacion))],
              raised |-> FALSE, out |-> None]

\* the body of "for deuda in request.deudas": the new locals and, when the
\* debt cannot be amortized, the HTTPException raised
DebtPasoDeuda(lc, deuda, amortizacion) ==
    LET lc2 == [lc EXCEPT
            !.i = lc.i + 1,
            !.total_deudas = FAdd(lc.total_deudas, deuda.monto_total),
            !.total_pagos_minimos =
                FAdd(lc.total_pagos_minimos, deuda.pago_minimo_mensual)]
    IN  IF amortizacion.error # None
        THEN [loc |-> lc2, raised |-> TRUE,
              out |-> ErrorDeudaImpagable(deuda, amortizacion)]
        ELSE [loc |-> [lc2 EXCEPT !.deudas_analizadas =
                         Append(lc.deudas_analizadas,
                                NuevaDeudaAnalisis(deuda, amortizacion))],
              raised |-> FALSE, out |-> None]

\* a capacity test that lets every request through
PagosNuncaSuperan(total_pagos_minimos, ingreso_mensual) == FALSE

\* a capacity test that also rejects payments equal to the income
PagosAlcanzanIngreso(total_pagos_minimos, ingreso_mensual) ==
    FGe(total_pagos_minimos, ingreso_mensual)

\* total_pagos_minimos > request.ingreso_mensual
PagosSuperanIngreso(total_pagos_minimos, ingreso_mensual) ==
    FGt(total_pagos_minimos, ingreso_mensual)

EstrategiaDesc(estrategia) ==
    IF estrategia = "avalancha"
    THEN "Avalancha (pagar primero las deudas con mayor interes)"
    ELSE "Bola de Nieve (pagar primero las deudas mas pequenas)"

\* a list left in input order
SinOrdenar(seq, estrategia) == seq

\* deudas_analizadas.sort(...) for the strategy
OrdenarDeudas(seq, estrategia) == OrdenarEstable(seq, estrategia)

\* a numbering that starts at 0, as enumerate does by default
AsignarPrioridadesDesdeCero(seq) ==
    [i \in 1..Len(seq) |-> [seq[i] EXCEPT !.prioridad = i - 1]]

\* for i, deuda in enumerate(deudas_analizadas, 1): deuda.prioridad = i
AsignarPrioridades(seq) ==
    [i \in 1..Len(seq) |-> [seq[i] EXCEPT !.prioridad = i]]

LineaOrdenPago(d) ==
    [prioridad |-> d.prioridad, nombre |-> d.nombre,
     monto |-> Fmt(d.monto_total, 2), tasa |-> Fmt(d.tasa_interes_anual, 1)]

LineaPrompt(d) ==
    [nombre |-> d.nombre, monto |-> Fmt(d.monto_total, 2),
     tasa |-> Fmt(d.tasa_interes_anual, 1),
     pago |-> Fmt(d.pago_recomendado, 2)]

\* the debts with tasa_interes_anual > 40, in list order
RECURSIVE DeudasAltaTasa(_)
DeudasAltaTasa(seq) ==
    IF seq = << >> THEN << >>
    ELSE LET resto == DeudasAltaTasa(SubSeq(seq, 1, Len(seq) - 1))
             d     == seq[Len(seq)]
         IN  IF FGt(d.tasa_interes_anual, FInt(40)) THEN Append(resto, d)
             ELSE resto

RecomendacionesDeuda(deudas, estrategia_desc, dinero_extra, proyeccion_meses, total_intereses) ==
    LET altas == DeudasAltaTasa(deudas)
    IN  <<[msg |-> "estrategia", estrategia |-> estrategia_desc]>>
        \o (IF FGt(dinero_extra, FZero)
            THEN <<[msg |-> "extra", monto |-> Fmt(dinero_extra, 2),
                    nombre |-> deudas[1].nombre]>>
            ELSE <<[msg |-> "apenas"]>>)
        \o (IF altas # << >>
            THEN <<[msg |-> "alta_tasa",
                    nombres |-> [k \in 1..Len(altas) |-> altas[k].nombre]]>>
            ELSE << >>)
        \o <<[msg |-> "proyeccion", meses |-> proyeccion_meses,
              intereses |-> Fmt(total_intereses, 2)]>>

\* max(d.meses_para_liquidar for d in deudas_analizadas)
ProyeccionMeses(deudas) ==
    MaxInt([k \in 1..Len(deudas) |-> deudas[k].meses_para_liquidar])

\* a total that adds the first month's interest of each debt
TotalDeInteresMensual(deudas) ==
    SumaFloat([k \in 1..Len(deudas) |-> deudas[k].interes_mensual])

\* sum(d.total_intereses_a_pagar for d in deudas_analizadas): the builtin
\* adds left to right up to CPython 3.11 and with compensation from 3.12 on
TotalIntereses(deudas) ==
    IF python = "3.11"
    THEN SumaFloat([k \in 1..Len(deudas) |->
                       deudas[k].total_intereses_a_pagar])
    ELSE SumaCompensada([k \in 1..Len(deudas) |->
                            deudas[k].total_intereses_a_pagar], 1,
                        [f |-> FZero, c |-> FZero, t |-> FZero, d |-> FZero,
                         paso |-> "0 + x"])

\* lines 515-585: everything computed between the priorities and the
\* narrative call
PlanDeuda(rq, lc) ==
    LET deudas          == lc.deudas_analizadas
        estrategia_desc == EstrategiaDesc(rq.estrategia_preferida)
        dinero_extra    == FSub(rq.ingreso_mensual, lc.total_pagos_minimos)
        proyeccion      == ProyeccionMeses(deudas)
        total_intereses == TotalIntereses(deudas)
    IN  [estrategia_desc |-> estrategia_desc,
         dinero_extra |-> dinero_extra,
         orden_pago |-> [k \in 1..Len(deudas) |-> LineaOrdenPago(deudas[k])],
         proyeccion_meses |-> proyeccion,
         total_intereses |-> total_intereses,
         ahorro_vs_minimos |-> FMul(total_intereses, FDec(25, 2)),
         recomendaciones |->
             RecomendacionesDeuda(deudas, estrategia_desc, dinero_extra,
                                  proyeccion, total_intereses),
         prompt |-> [deudas |-> [k \in 1..Len(deudas) |->
                                    LineaPrompt(deudas[k])],
                     total_deudas |-> Fmt(lc.total_deudas, 2),
                     ingreso |-> Fmt(rq.ingreso_mensual, 2),
                     estrategia |-> estrategia_desc]]

\* DebtResponse(...)
RespuestaDeuda(lc) ==
    [status |-> 200,
     total_deudas |-> Round2(lc.total_deudas),
     total_pagos_minimos |-> Round2(lc.total_pagos_minimos),
     deudas_analizadas |-> lc.deudas_analizadas,
     estrategia_aplicada |-> lc.plan.estrategia_desc,
     orden_pago_sugerido |-> lc.plan.orden_pago,
     proyeccion_meses_total |-> lc.plan.proyeccion_meses,
     total_intereses_proyectados |-> Round2(lc.plan.total_intereses),
     ahorro_vs_minimos |-> Round2(lc.plan.ahorro_vs_minimos),
     recomendaciones |-> lc.plan.recomendaciones,
     analisis_ia |-> lc.analisis_ia]

InitDebt ==
    /\ req \in SolicitudesDebt
    /\ pc = "deudas"
    /\ loc = DebtLocInicio
    /\ out = None
    /\ llm = "idle"
    /\ sims = 0
    /\ python \in {"3.11", "3.12"}

\* one pass of the loop over request.deudas
DebtIterar ==
    /\ req.tipo = "debt"
    /\ pc = "deudas"
    /\ loc.i <= Len(req.deudas)
    /\ \E r \in { DebtPasoDeuda(loc, req.deudas[loc.i],
                                 Amortizar(req.deudas[loc.i])) } :
           /\ loc' = r.loc
           /\ out' = r.out
           /\ pc' = IF r.raised THEN "fin" ELSE "deudas"
    /\ sims' = sims + 1
    /\ UNCHANGED <<python, req, llm>>

\* "Validar capacidad de pago", after the loop
DebtValidar ==
    /\ req.tipo = "debt"
    /\ pc = "deudas"
    /\ loc.i > Len(req.deudas)
    /\ IF PagosSuperanIngreso(loc.total_pagos_minimos, req.ingreso_mensual)
       THEN /\ out' = ErrorIngresoInsuficiente(loc.total_pagos_minimos,
                                               req.ingreso_mensual)
            /\ pc' = "fin"
       ELSE /\ out' = out
            /\ pc' = "ordenar"
    /\ UNCHANGED <<python, req, loc, llm, sims>>

\* "Aplicar estrategia de pago" and "Asignar prioridades"
DebtOrdenar ==
    /\ req.tipo = "debt"
    /\ pc = "ordenar"
    /\ loc' = [loc EXCEPT !.deudas_analizadas =
                 AsignarPrioridades(OrdenarDeudas(loc.deudas_analizadas,
                                                  req.estrategia_preferida))]
    /\ pc' = "agregar"
    /\ UNCHANGED <<python, req, out, llm, sims>>

\* extra money, payoff order, projection, recommendations, prompt
DebtAgregar ==
    /\ req.tipo = "debt"
    /\ pc = "agregar"
    /\ loc' = [loc EXCEPT !.plan = PlanDeuda(req, loc)]
    /\ pc' = "llm"
    /\ UNCHANGED <<python, req, out, llm, sims>>

DebtRetornar ==
    /\ req.tipo = "debt"
    /\ pc = "respuesta"
    /\ out' = RespuestaDeuda(loc)
    /\ pc' = "fin"
    /\ UNCHANGED <<python, req, loc, llm, sims>>

-----------------------------------------------------------------------------
(* analyze_budget                                                          *)

\* a rule whose savings share is 25%
ReglaConAhorroDeUnCuarto(ingresos) ==
    [necesidades |-> FMul(ingresos, FDec(50, 2)),
     deseos |-> FMul(ingresos, FDec(30, 2)),
     ahorro |-> FMul(ingresos, FDec(25, 2))]

calcular_regla_50_30_20(ingresos) ==
    [necesidades |-> FMul(ingresos, FDec(50, 2)),
     deseos |-> FMul(ingresos, FDec(30, 2)),
     ahorro |-> FMul(ingresos, FDec(20, 2))]

\* calcular_regla_50_30_20 called on its own: whole incomes, incomes of a
\* few cents and incomes with cents
MaxIngreso == 40

EntradasRegla ==
    { [tipo |-> "regla", ingresos |-> x] :
         x \in { FInt(k) : k \in 1..MaxIngreso }
               \cup { FDec(k, 2) : k \in 1..MaxIngreso }
               \cup { FInt(10000), FInt(20000), FDec(1234567, 2),
                      FDec(9999999, 2) } }

InitRegla ==
    /\ req \in EntradasRegla
    /\ pc = "regla"
    /\ loc = None
    /\ out = None
    /\ llm = "idle"
    /\ sims = 0
    /\ python \in {"3.11", "3.12"}

\* lines 189-193
ReglaRetornar ==
    /\ pc = "regla"
    /\ out' = calcular_regla_50_30_20(req.ingresos)
    /\ pc' = "fin"
    /\ UNCHANGED <<python, req, loc, llm, sims>>

SpecRegla == InitRegla /\ [][ReglaRetornar]_vars

\* (disponible / ingresos * 100) if disponible > 0 else 0
PorcentajeAhorro(disponible, ingresos) ==
    IF FGt(disponible, FZero)
    THEN FMul(FDiv(disponible, ingresos), FInt(100))
    ELSE FZero

\* lines 300-305, from total_gastos on
TotalesDesde(rq, total_gastos) ==
    [total_gastos |-> total_gastos,
     disponible |-> FSub(rq.ingresos_mensuales, total_gastos),
     porcentaje_ahorro_actual |->
         PorcentajeAhorro(FSub(rq.ingresos_mensuales, total_gastos),
                          rq.ingresos_mensuales),
     regla |-> calcular_regla_50_30_20(rq.ingresos_mensuales)]

BudgetTotalesDe(rq) ==
    TotalesDesde(rq, FAdd(FAdd(rq.gastos_fijos, rq.gastos_variables),
                          rq.gastos_hormiga))

\* a status that still warns when the excess is exactly 20%
EstadoGastoLimiteAlerta(diferencia, recomendado) ==
    IF FLe(diferencia, FZero) THEN "bien"
    ELSE IF FLe(diferencia, FMul(recomendado, FDec(2, 1))) THEN "alerta"
    ELSE "excedido"

\* "bien" if diferencia <= 0 else "alerta" if diferencia < recomendado * 0.2
\* else "excedido"
EstadoGasto(diferencia, recomendado) ==
    IF FLe(diferencia, FZero) THEN "bien"
    ELSE IF FLt(diferencia, FMul(recomendado, FDec(2, 1))) THEN "alerta"
    ELSE "excedido"

\* a savings status that only warns when nothing at all is left
EstadoAhorroCeroAlerta(disponible, recomendado) ==
    IF FGe(disponible, recomendado) THEN "bien"
    ELSE IF FGe(disponible, FZero) THEN "alerta"
    ELSE "excedido"

\* "bien" if disponible >= regla["ahorro"] else "alerta" if disponible > 0
\* else "excedido"
EstadoAhorro(disponible, recomendado) ==
    IF FGe(disponible, recomendado) THEN "bien"
    ELSE IF FGt(disponible, FZero) THEN "alerta"
    ELSE "excedido"

\* a spending category: BudgetCategory(...) of lines 315-323 and 331-339
CategoriaGasto(nombre, monto_actual, recomendado, porcentaje, ingresos) ==
    [nombre |-> nombre,
     monto_actual |-> monto_actual,
     monto_recomendado |-> recomendado,
     porcentaje_actual |->
         Round2(FMul(FDiv(monto_actual, ingresos), FInt(100))),
     porcentaje_recomendado |-> FInt(porcentaje),
     diferencia |-> Round2(FSub(monto_actual, recomendado)),
     estado |-> EstadoGasto(FSub(monto_actual, recomendado), recomendado)]

\* the savings category, lines 345-353
CategoriaAhorro(t) ==
    [nombre |-> "Ahorro e Inversion",
     monto_actual |-> FMax(t.disponible, FZero),
     monto_recomendado |-> t.regla.ahorro,
     porcentaje_actual |-> Round2(t.porcentaje_ahorro_actual),
     porcentaje_recomendado |-> FInt(20),
     diferencia |-> Round2(FSub(t.disponible, t.regla.ahorro)),
     estado |-> EstadoAhorro(t.disponible, t.regla.ahorro)]

\* gastos_deseos = request.gastos_variables + request.gastos_hormiga
GastosDeseos(rq) == FAdd(rq.gastos_variables, rq.gastos_hormiga)

CategoriasPresupuesto(rq, t) ==
    << CategoriaGasto("Necesidades (Gastos Fijos)", rq.gastos_fijos,
                      t.regla.necesidades, 50, rq.ingresos_mensuales),
       CategoriaGasto("Deseos (Gastos Variables)", GastosDeseos(rq),
                      t.regla.deseos, 30, rq.ingresos_mensuales),
       CategoriaAhorro(t) >>

\* lines 356-393
RecomendacionesPresupuesto(rq, t, gastos_deseos) ==
    (IF FGt(rq.gastos_fijos, t.regla.necesidades)
     THEN <<[msg |-> "fijos",
             pct |-> Fmt(FMul(FDiv(rq.gastos_fijos, rq.ingresos_mensuales),
                              FInt(100)), 1),
             exceso |-> Fmt(FSub(rq.gastos_fijos, t.regla.necesidades), 2)]>>
     ELSE << >>)
    \o (IF FGt(gastos_deseos, t.regla.deseos)
        THEN <<[msg |-> "deseos",
                exceso |-> Fmt(FSub(gastos_deseos, t.regla.deseos), 2)]>>
        ELSE << >>)
    \o (IF FGt(rq.gastos_hormiga, FZero)
        THEN <<[msg |-> "hormiga", monto |-> Fmt(rq.gastos_hormiga, 2),
                anual |-> Fmt(FMul(rq.gastos_hormiga, FInt(12)), 2)]>>
        ELSE << >>)
    \o (IF FLt(t.disponible, t.regla.ahorro)
        THEN IF FLe(t.disponible, FZero)
             THEN <<[msg |-> "urgente"]>>
             ELSE <<[msg |-> "ahorra_poco",
                     pct |-> Fmt(t.porcentaje_ahorro_actual, 1),
                     meta |-> Fmt(t.regla.ahorro, 2)]>>
        ELSE <<[msg |-> "excelente",
                pct |-> Fmt(t.porcentaje_ahorro_actual, 1)]>>)

\* an overall status that looks at the savings only
EstadoGeneralSoloAhorro(rq, t) ==
    IF FGe(t.disponible, t.regla.ahorro) THEN "saludable"
    ELSE IF FGt(t.disponible, FZero) THEN "precaucion"
    ELSE "critico"

\* an overall status that wants more than the recommended savings
EstadoGeneralEstricto(rq, t) ==
    IF FGt(t.disponible, t.regla.ahorro)
       /\ FLe(rq.gastos_fijos, t.regla.necesidades)
    THEN "saludable"
    ELSE IF FGt(t.disponible, FZero) THEN "precaucion"
    ELSE "critico"

\* lines 398-404
EstadoGeneral(rq, t) ==
    IF FGe(t.disponible, t.regla.ahorro)
       /\ FLe(rq.gastos_fijos, t.regla.necesidades)
    THEN "saludable"
    ELSE IF FGt(t.disponible, FZero) THEN "precaucion"
    ELSE "critico"

PromptPresupuesto(rq, t, gastos_deseos, estado_general) ==
    [ingresos |-> Fmt(rq.ingresos_mensuales, 2),
     gastos_fijos |-> Fmt(rq.gastos_fijos, 2),
     pct_fijos |-> Fmt(FMul(FDiv(rq.gastos_fijos, rq.ingresos_mensuales),
                            FInt(100)), 1),
     gastos_deseos |-> Fmt(gastos_deseos, 2),
     pct_deseos |-> Fmt(FMul(FDiv(gastos_deseos, rq.ingresos_mensuales),
                             FInt(100)), 1),
     disponible |-> Fmt(t.disponible, 2),
     pct_ahorro |-> Fmt(t.porcentaje_ahorro_actual, 1),
     estado |-> estado_general]

\* lines 355-421
PlanPresupuesto(rq, t) ==
    [recomendaciones |-> RecomendacionesPresupuesto(rq, t, GastosDeseos(rq)),
     proyeccion_ahorro_anual |-> FMul(FMax(t.disponible, FZero), FInt(12)),
     estado_general |-> EstadoGeneral(rq, t),
     prompt |-> PromptPresupuesto(rq, t, GastosDeseos(rq),
                                  EstadoGeneral(rq, t))]

\* BudgetResponse(...)
RespuestaPresupuesto(lc) ==
    [status |-> 200,
     total_gastos |-> Round2(lc.totales.total_gastos),
     total_disponible |-> Round2(lc.totales.disponible),
     porcentaje_ahorro_actual |->
         Round2(lc.totales.porcentaje_ahorro_actual),
     porcentaje_ahorro_recomendado |-> FInt(20),
     categorias |-> lc.categorias,
     recomendaciones |-> lc.plan.recomendaciones,
     analisis_ia |-> lc.analisis_ia,
     estado_general |-> lc.plan.estado_general,
     proyeccion_ahorro_anual |-> Round2(lc.plan.proyeccion_ahorro_anual)]

SolicitudesBudget ==
    { [tipo |-> "budget", ingresos_mensuales |-> FInt(g),
       gastos_fijos |-> FInt(f), gastos_variables |-> FInt(v),
       gastos_hormiga |-> FInt(h)] :
          g \in {10000, 20000},
          f \in {4000, 5000, 5500, 6000, 8000, 12000},
          v \in {0, 2000, 3000, 5000}, h \in {0, 500, 600} }

BudgetLocInicio ==
    [totales |-> None, categorias |-> << >>, plan |-> None,
     analisis_ia |-> None]

InitBudget ==
    /\ req \in SolicitudesBudget
    /\ pc = "totales"
    /\ loc = BudgetLocInicio
    /\ out = None
    /\ llm = "idle"
    /\ sims = 0
    /\ python \in {"3.11", "3.12"}

\* lines 299-305
BudgetTotales ==
    /\ req.tipo = "budget"
    /\ pc = "totales"
    /\ loc' = [loc EXCEPT !.totales = BudgetTotalesDe(req)]
    /\ pc' = "categorias"
    /\ UNCHANGED <<python, req, out, llm, sims>>

\* lines 307-353
BudgetCategorias ==
    /\ req.tipo = "budget"
    /\ pc = "categorias"
    /\ loc' = [loc EXCEPT !.categorias =
                 CategoriasPresupuesto(req, loc.totales)]
    /\ pc' = "recomendar"
    /\ UNCHANGED <<python, req, out, llm, sims>>

\* lines 355-421
BudgetRecomendar ==
    /\ req.tipo = "budget"
    /\ pc = "recomendar"
    /\ loc' = [loc EXCEPT !.plan = PlanPresupuesto(req, loc.totales)]
    /\ pc' = "llm"
    /\ UNCHANGED <<python, req, out, llm, sims>>

BudgetRetornar ==
    /\ req.tipo = "budget"
    /\ pc = "respuesta"
    /\ out' = RespuestaPresupuesto(loc)
    /\ pc' = "fin"
    /\ UNCHANGED <<python, req, loc, llm, sims>>

-----------------------------------------------------------------------------
(* recommend_investment                                                    *)

Instrumento(nombre, tipo, porcentaje, rendimiento, riesgo, liquidez) ==
    [nombre |-> nombre, tipo |-> tipo, porcentaje |-> porcentaje,
     rendimiento |-> rendimiento, riesgo |-> riesgo, liquidez |-> liquidez]

InstrumentosConservador ==
    << Instrumento("CETES", "renta_fija", 50, FDec(105, 1), "bajo",
                   "corto_plazo"),
       Instrumento("Fondos de Deuda", "renta_fija", 30, FInt(9), "bajo",
                   "inmediata"),
       Instrumento("Cuenta de Ahorro de Alto Rendimiento", "renta_fija", 20,
                   FInt(7), "bajo", "inmediata") >>

InstrumentosModerado ==
    << Instrumento("CETES", "renta_fija", 25, FDec(105, 1), "bajo",
                   "corto_plazo"),
       Instrumento("Fondos Indizados (S&P 500 o IPC)", "renta_variable", 35,
                   FInt(12), "medio", "corto_plazo"),
       Instrumento("Fondos de Inversion Balanceados", "mixto", 25, FInt(10),
                   "medio", "corto_plazo"),
       Instrumento("Bonos Corporativos", "renta_fija", 15, FInt(11), "bajo",
                   "largo_plazo") >>

InstrumentosAgresivo ==
    << Instrumento("Acciones Individuales (Mercado Mexicano)",
                   "renta_variable", 30, FInt(15), "alto", "inmediata"),
       Instrumento("Fondos Indizados Internacionales", "renta_variable", 30,
                   FInt(13), "alto", "corto_plazo"),
       Instrumento("Fondos de Crecimiento (Growth Funds)", "renta_variable",
                   20, FInt(14), "alto", "corto_plazo"),
       Instrumento("CETES (Reserva Liquida)", "renta_fija", 20, FDec(105, 1),
                   "bajo", "corto_plazo") >>

\* the if / elif / else on request.perfil_riesgo: the instruments and the
\* literal assigned to rendimiento_esperado (9.35, 11.0, 13.4)
Plantilla(perfil_riesgo) ==
    IF perfil_riesgo = "conservador"
    THEN [instrumentos |-> InstrumentosConservador,
          rendimiento_esperado |-> FDec(935, 2)]
    ELSE IF perfil_riesgo = "moderado"
    THEN [instrumentos |-> InstrumentosModerado,
          rendimiento_esperado |-> FInt(11)]
    ELSE [instrumentos |-> InstrumentosAgresivo,
          rendimiento_esperado |-> FDec(134, 1)]

\* an entry that reports its weight as a fraction of 1
InstrumentoInversionEnFraccion(instr, monto_a_invertir) ==
    [nombre |-> instr.nombre,
     tipo |-> instr.tipo,
     porcentaje_portafolio |-> FDiv(FInt(instr.porcentaje), FInt(100)),
     monto_asignado |->
         Round2(FMul(monto_a_invertir,
                     FDiv(FInt(instr.porcentaje), FInt(100)))),
     rendimiento_esperado_anual |-> instr.rendimiento,
     riesgo |-> instr.riesgo,
     liquidez |-> instr.liquidez]

\* an entry whose amount takes the weight as a factor, not as a percentage
InstrumentoInversionSinDividir(instr, monto_a_invertir) ==
    [nombre |-> instr.nombre,
     tipo |-> instr.tipo,
     porcentaje_portafolio |-> FInt(instr.porcentaje),
     monto_asignado |->
         Round2(FMul(monto_a_invertir, FInt(instr.porcentaje))),
     rendimiento_esperado_anual |-> instr.rendimiento,
     riesgo |-> instr.riesgo,
     liquidez |-> instr.liquidez]

\* InstrumentoInversion(...) for one template entry
InstrumentoInversion(instr, monto_a_invertir) ==
    [nombre |-> instr.nombre,
     tipo |-> instr.tipo,
     porcentaje_portafolio |-> FInt(instr.porcentaje),
     monto_asignado |->
         Round2(FMul(monto_a_invertir,
                     FDiv(FInt(instr.porcentaje), FInt(100)))),
     rendimiento_esperado_anual |-> instr.rendimiento,
     riesgo |-> instr.riesgo,
     liquidez |-> instr.liquidez]

ConstruirPortafolio(instrumentos, monto_a_invertir) ==
    [k \in 1..Len(instrumentos) |->
        InstrumentoInversion(instrumentos[k], monto_a_invertir)]

RecomendacionesInversion(rq) ==
    (IF rq.plazo_meses < 12 THEN <<[msg |-> "plazo_corto"]>>
     ELSE IF rq.plazo_meses >= 60
          THEN <<[msg |-> "plazo_largo", meses |-> rq.plazo_meses]>>
          ELSE << >>)
    \o (IF ~rq.experiencia_inversion THEN <<[msg |-> "principiante"]>>
        ELSE << >>)
    \o <<[msg |-> "diversifica"]>>
    \o (IF rq.perfil_riesgo = "agresivo" THEN <<[msg |-> "agresivo"]>>
        ELSE << >>)

RiesgoGlobal(perfil_riesgo) ==
    IF perfil_riesgo = "conservador" THEN "bajo"
    ELSE IF perfil_riesgo = "moderado" THEN "medio"
    ELSE "alto"

Consideraciones ==
    << "proyecciones no garantias", "renta variable puede perder",
       "fondo de emergencia", "revisa y rebalancea", "implicaciones fiscales" >>

LineaPortafolio(p) ==
    [nombre |-> p.nombre, porcentaje |-> p.porcentaje_portafolio,
     monto |-> Fmt(p.monto_asignado, 2),
     rendimiento |-> p.rendimiento_esperado_anual]

\* lines 766-839
PlanInversion(rq, lc) ==
    [recomendaciones |-> RecomendacionesInversion(rq),
     riesgo_global |-> RiesgoGlobal(rq.perfil_riesgo),
     consideraciones |-> Consideraciones,
     prompt |->
         [monto |-> Fmt(rq.monto_a_invertir, 2),
          plazo |-> rq.plazo_meses,
          perfil |-> rq.perfil_riesgo,
          objetivo |-> rq.objetivo,
          experiencia |-> IF rq.experiencia_inversion THEN "Si" ELSE "No",
          portafolio |-> [k \in 1..Len(lc.portafolio) |->
                             LineaPortafolio(lc.portafolio[k])],
          rendimiento |-> lc.rendimiento_esperado,
          valor |-> Fmt(lc.proyeccion.valor_final, 2),
          ganancia |-> Fmt(lc.proyeccion.ganancia, 2)]]

\* InvestmentResponse(...)
RespuestaInversion(rq, lc) ==
    [status |-> 200,
     monto_total |-> rq.monto_a_invertir,
     plazo_meses |-> rq.plazo_meses,
     perfil_riesgo |-> rq.perfil_riesgo,
     portafolio_sugerido |-> lc.portafolio,
     rendimiento_esperado_anual |-> Round2(lc.rendimiento_esperado),
     proyeccion_valor_final |-> lc.proyeccion.valor_final,
     ganancia_proyectada |-> lc.proyeccion.ganancia,
     riesgo_global |-> lc.plan.riesgo_global,
     recomendaciones |-> lc.plan.recomendaciones,
     analisis_ia |-> lc.analisis_ia,
     consideraciones_importantes |-> lc.plan.consideraciones]

\* the outer "except Exception": HTTPException(500, ...)
ErrorInterno(excepcion) ==
    [status |-> 500, tipo |-> "InternalError", excepcion |-> excepcion]

SolicitudesInvestment ==
    { [tipo |-> "investment", monto_a_invertir |-> m, plazo_meses |-> z,
       perfil_riesgo |-> f, objetivo |-> o, experiencia_inversion |-> x] :
          m \in {FDec(30, 2), FInt(1000), FInt(10000), FDec(1234567, 2)},
          z \in {6, 12, 60, 360},
          f \in {"conservador", "moderado", "agresivo"},
          o \in {"crecimiento", "retiro"}, x \in BOOLEAN }

InvLocInicio ==
    [portafolio |-> << >>, rendimiento_esperado |-> FZero,
     proyeccion |-> None, plan |-> None, analisis_ia |-> None]

InitInvestment ==
    /\ req \in SolicitudesInvestment
    /\ pc = "portafolio"
    /\ loc = InvLocInicio
    /\ out = None
    /\ llm = "idle"
    /\ sims = 0
    /\ python \in {"3.11", "3.12"}

\* lines 624-757: the template of the profile and the portfolio amounts
InvPortafolio ==
    /\ req.tipo = "investment"
    /\ pc = "portafolio"
    /\ \E plantilla \in { Plantilla(req.perfil_riesgo) } :
          loc' = [loc EXCEPT
                    !.rendimiento_esperado = plantilla.rendimiento_esperado,
                    !.portafolio =
                        ConstruirPortafolio(plantilla.instrumentos,
                                            req.monto_a_invertir)]
    /\ pc' = "proyeccion"
    /\ UNCHANGED <<python, req, out, llm, sims>>

\* lines 759-764; an exception of the projection is caught by the outer
\* handler and becomes a 500
InvProyectar ==
    /\ req.tipo = "investment"
    /\ pc = "proyeccion"
    /\ \E proyeccion \in calcular_interes_compuesto(
                             req.monto_a_invertir, loc.rendimiento_esperado,
                             req.plazo_meses, FZero) :
          IF proyeccion.excepcion # None
          THEN /\ out' = ErrorInterno(proyeccion.excepcion)
               /\ pc' = "fin"
               /\ loc' = loc
          ELSE /\ loc' = [loc EXCEPT !.proyeccion = proyeccion]
               /\ pc' = "recomendar"
               /\ out' = out
    /\ UNCHANGED <<python, req, llm, sims>>

\* lines 766-839
InvRecomendar ==
    /\ req.tipo = "investment"
    /\ pc = "recomendar"
    /\ loc' = [loc EXCEPT !.plan = PlanInversion(req, loc)]
    /\ pc' = "llm"
    /\ UNCHANGED <<python, req, out, llm, sims>>

InvRetornar ==
    /\ req.tipo = "investment"
    /\ pc = "respuesta"
    /\ out' = RespuestaInversion(req, loc)
    /\ pc' = "fin"
    /\ UNCHANGED <<python, req, loc, llm, sims>>

-----------------------------------------------------------------------------
(* The awaited narrative call: await llm_service.chat(message=prompt)      *)
(* inside try / except Exception.                                          *)

\* a handler of analyze_debt that calls the service as soon as the loop
\* over the debts ends, before the income check
LlmLlamarSinValidar ==
    /\ \/ pc = "llm"
       \/ pc = "deudas" /\ req.tipo = "debt" /\ loc.i > Len(req.deudas)
    /\ llm = "idle"
    /\ llm' = "pending"
    /\ pc' = "await"
    /\ UNCHANGED <<python, req, loc, out, sims>>

\* the handler calls the service and suspends
LlmLlamar ==
    /\ pc = "llm"
    /\ llm = "idle"
    /\ llm' = "pending"
    /\ pc' = "await"
    /\ UNCHANGED <<python, req, loc, out, sims>>

\* the service answers: analisis_ia = the text
LlmResponder ==
    /\ pc = "await"
    /\ llm = "pending"
    /\ \E texto \in TextosIA : loc' = [loc EXCEPT !.analisis_ia = texto]
    /\ llm' = "ok"
    /\ pc' = "respuesta"
    /\ UNCHANGED <<python, req, out, sims>>

\* an except branch that also drops the recommendations computed so far
TrasFalloIASinRecomendaciones(lc) ==
    [lc EXCEPT !.analisis_ia = Fallback, !.plan.recomendaciones = << >>]

\* the locals after "except Exception": analisis_ia = the fixed message
TrasFalloIA(lc) == [lc EXCEPT !.analisis_ia = Fallback]

\* the service raises: the except branch substitutes the fixed message
LlmFallar ==
    /\ pc = "await"
    /\ llm = "pending"
    /\ loc' = TrasFalloIA(loc)
    /\ llm' = "raised"
    /\ pc' = "respuesta"
    /\ UNCHANGED <<python, req, out, sims>>

NextBudget ==
    \/ BudgetTotales
    \/ BudgetCategorias
    \/ BudgetRecomendar
    \/ LlmLlamar
    \/ LlmResponder
    \/ LlmFallar
    \/ BudgetRetornar

SpecBudget == InitBudget /\ [][NextBudget]_vars

NextDebt ==
    \/ DebtIterar
    \/ DebtValidar
    \/ DebtOrdenar
    \/ DebtAgregar
    \/ LlmLlamar
    \/ LlmResponder
    \/ LlmFallar
    \/ DebtRetornar

SpecDebt == InitDebt /\ [][NextDebt]_vars

NextInvestment ==
    \/ InvPortafolio
    \/ InvProyectar
    \/ InvRecomendar
    \/ LlmLlamar
    \/ LlmResponder
    \/ LlmFallar
    \/ InvRetornar

SpecInvestment == InitInvestment /\ [][NextInvestment]_vars

\* the three endpoints of the router, one request each
Init == InitBudget \/ InitDebt \/ InitInvestment

Next ==
    \/ BudgetTotales
    \/ BudgetCategorias
    \/ BudgetRecomendar
    \/ BudgetRetornar
    \/ DebtIterar
    \/ DebtValidar
    \/ DebtOrdenar
    \/ DebtAgregar
    \/ DebtRetornar
    \/ InvPortafolio
    \/ InvProyectar
    \/ InvRecomendar
    \/ InvRetornar
    \/ LlmLlamar
    \/ LlmResponder
    \/ LlmFallar

Spec == Init /\ [][Next]_vars

\* the return statement of a handler: from "respuesta" the only steps of
\* Next are BudgetRetornar, DebtRetornar and InvRetornar, and each of them
\* ends the request
PasoDeRetorno == pc = "respuesta" /\ pc' = "fin"

\* The event loop runs a coroutine that is ready: the handler makes its
\* call to the narrative service and, once the await is over, executes its
\* return.  The reply and the failure of the service are the collaborator's
\* steps and nothing in the handlers or in llm_service.chat bounds the wait
\* for them, so they get no fairness.
FairSpec ==
    Init /\ [][Next]_vars /\ WF_vars(LlmLlamar) /\ WF_pc(PasoDeRetorno)

-----------------------------------------------------------------------------
(* Two requests served by the same event loop.  Each handler call has its  *)
(* own frame (request, position, locals, result); the only object the two  *)
(* calls share is the module-level llm_service, which keeps no data of a   *)
(* call outside the coroutine that serves it.  Here req, pc, loc, out and  *)
(* llm are pairs, one component per request.                               *)

\* the frames a handler frame e = [req, pc, loc, out, llm] can move to in
\* one step: the steps of analyze_budget, analyze_debt and
\* recommend_investment, and the awaited narrative call
PasoDeSolicitud(e) ==
    IF e.pc = "fin" THEN {}
    ELSE IF e.pc = "llm" THEN {[e EXCEPT !.pc = "await", !.llm = "pending"]}
    ELSE IF e.pc = "await"
    THEN { [e EXCEPT !.loc.analisis_ia = texto, !.llm = "ok",
                     !.pc = "respuesta"] : texto \in TextosIA }
         \cup {[e EXCEPT !.loc = TrasFalloIA(e.loc), !.llm = "raised",
                         !.pc = "respuesta"]}
    ELSE IF e.req.tipo = "budget"
    THEN IF e.pc = "totales"
         THEN {[e EXCEPT !.loc.totales = BudgetTotalesDe(e.req),
                         !.pc = "categorias"]}
         ELSE IF e.pc = "categorias"
         THEN {[e EXCEPT !.loc.categorias =
                             CategoriasPresupuesto(e.req, e.loc.totales),
                         !.pc = "recomendar"]}
         ELSE IF e.pc = "recomendar"
         THEN {[e EXCEPT !.loc.plan = PlanPresupuesto(e.req, e.loc.totales),
                         !.pc = "llm"]}
         ELSE {[e EXCEPT !.out = RespuestaPresupuesto(e.loc), !.pc = "fin"]}
    ELSE IF e.req.tipo = "debt"
    THEN IF e.pc = "deudas" /\ e.loc.i <= Len(e.req.deudas)
         THEN { [e EXCEPT !.loc = r.loc, !.out = r.out,
                          !.pc = IF r.raised THEN "fin" ELSE "deudas"] :
                   r \in { DebtPasoDeuda(e.loc, e.req.deudas[e.loc.i],
                                         Amortizar(e.req.deudas[e.loc.i])) } }
         ELSE IF e.pc = "deudas"
         THEN IF PagosSuperanIngreso(e.loc.total_pagos_minimos,
                                     e.req.ingreso_mensual)
              THEN {[e EXCEPT !.out = ErrorIngresoInsuficiente(
                                          e.loc.total_pagos_minimos,
                                          e.req.ingreso_mensual),
                              !.pc = "fin"]}
              ELSE {[e EXCEPT !.pc = "ordenar"]}
         ELSE IF e.pc = "ordenar"
         THEN {[e EXCEPT !.loc.deudas_analizadas =
                             AsignarPrioridades(
                                 OrdenarDeudas(e.loc.deudas_analizadas,
                                               e.req.estrategia_preferida)),
                         !.pc = "agregar"]}
         ELSE IF e.pc = "agregar"
         THEN {[e EXCEPT !.loc.plan = PlanDeuda(e.req, e.loc), !.pc = "llm"]}
         ELSE {[e EXCEPT !.out = RespuestaDeuda(e.loc), !.pc = "fin"]}
    ELSE IF e.pc = "portafolio"
         THEN { [e EXCEPT !.loc.rendimiento_esperado =
                              plantilla.rendimiento_esperado,
                          !.loc.portafolio =
                              ConstruirPortafolio(plantilla.instrumentos,
                                                  e.req.monto_a_invertir),
                          !.pc = "proyeccion"] :
                   plantilla \in { Plantilla(e.req.perfil_riesgo) } }
         ELSE IF e.pc = "proyeccion"
         THEN { IF proyeccion.excepcion # None
                THEN [e EXCEPT !.out = ErrorInterno(proyeccion.excepcion),
                               !.pc = "fin"]
                ELSE [e EXCEPT !.loc.proyeccion = proyeccion,
                               !.pc = "recomendar"] :
                   proyeccion \in calcular_interes_compuesto(
                                      e.req.monto_a_invertir,
                                      e.loc.rendimiento_esperado,
                                      e.req.plazo_meses, FZero) }
         ELSE IF e.pc = "recomendar"
         THEN {[e EXCEPT !.loc.plan = PlanInversion(e.req, e.loc),
                         !.pc = "llm"]}
         ELSE {[e EXCEPT !.out = RespuestaInversion(e.req, e.loc),
                         !.pc = "fin"]}

\* the requests that meet: two debt requests, one request with an
\* unpayable debt, two budgets and one investment
SolicitudesConcurrentes ==
    { [tipo |-> "debt",
       deudas |-> <<Deuda("tarjeta", 5000, 36, 400),
                    Deuda("auto", 8000, 12, 500)>>,
       ingreso_mensual |-> FInt(1000), estrategia_preferida |-> "avalancha"],
      [tipo |-> "debt",
       deudas |-> <<Deuda("tienda", 2000, 36, 200),
                    Deuda("nomina", 5000, 12, 300)>>,
       ingreso_mensual |-> FInt(700), estrategia_preferida |-> "bola_nieve"],
      [tipo |-> "debt",
       deudas |-> <<Deuda("agiotista", 10000, 24, 100)>>,
       ingreso_mensual |-> FInt(500), estrategia_preferida |-> "avalancha"],
      [tipo |-> "budget", ingresos_mensuales |-> FInt(20000),
       gastos_fijos |-> FInt(8000), gastos_variables |-> FInt(5000),
       gastos_hormiga |-> FInt(0)],
      [tipo |-> "budget", ingresos_mensuales |-> FInt(10000),
       gastos_fijos |-> FInt(12000), gastos_variables |-> FInt(0),
       gastos_hormiga |-> FInt(500)],
      [tipo |-> "investment", monto_a_invertir |-> FDec(1234567, 2),
       plazo_meses |-> 12, perfil_riesgo |-> "agresivo",
       objetivo |-> "crecimiento", experiencia_inversion |-> FALSE] }

InitConcurrente ==
    /\ req \in [1..2 -> SolicitudesConcurrentes]
    /\ pc = [i \in 1..2 |->
                IF req[i].tipo = "budget" THEN "totales"
                ELSE IF req[i].tipo = "debt" THEN "deudas" ELSE "portafolio"]
    /\ loc = [i \in 1..2 |->
                 IF req[i].tipo = "budget" THEN BudgetLocInicio
                 ELSE IF req[i].tipo = "debt" THEN DebtLocInicio
                 ELSE InvLocInicio]
    /\ out = [i \in 1..2 |-> None]
    /\ llm = [i \in 1..2 |-> "idle"]
    /\ sims = 0
    /\ python \in {"3.11", "3.12"}

\* handlers whose locals are one object per endpoint: a request that reaches
\* its await overwrites the locals of the request of the same endpoint that
\* waits there
PasoConcurrenteCompartido ==
    \E i \in 1..2 :
       /\ \/ pc[3 - i] \in {"await", "fin"}
          \/ pc[3 - i] \in {"totales", "portafolio"}
          \/ pc[3 - i] = "deudas" /\ loc[3 - i].i = 1
       /\ \E e \in PasoDeSolicitud([req |-> req[i], pc |-> pc[i],
                                     loc |-> loc[i], out |-> out[i],
                                     llm |-> llm[i]]) :
             /\ pc' = [pc EXCEPT ![i] = e.pc]
             /\ loc' = [j \in 1..2 |->
                          IF \/ j = i
                             \/ /\ req[j].tipo = req[i].tipo
                                /\ pc[j] = "await"
                                /\ e.pc = "await"
                          THEN e.loc ELSE loc[j]]
             /\ out' = [out EXCEPT ![i] = e.out]
             /\ llm' = [llm EXCEPT ![i] = e.llm]
       /\ sims' = IF /\ req[i].tipo = "debt"
                     /\ pc[i] = "deudas"
                     /\ loc[i].i <= Len(req[i].deudas)
                  THEN sims + 1 ELSE sims
       /\ UNCHANGED <<python, req>>

\* the event loop runs one handler at a time, from its entry or from the
\* reply of the service up to its next await or its return: a handler takes
\* a step only while the other one has not started, is suspended in its
\* await, or has returned.  The step reads and writes the frame of that
\* handler only; sims counts the calls of calcular_amortizacion_deuda of
\* both requests (one for each pass of "for deuda in request.deudas").
PasoConcurrente ==
    \E i \in 1..2 :
       /\ \/ pc[3 - i] \in {"await", "fin"}
          \/ pc[3 - i] \in {"totales", "portafolio"}
          \/ pc[3 - i] = "deudas" /\ loc[3 - i].i = 1
       /\ \E e \in PasoDeSolicitud([req |-> req[i], pc |-> pc[i],
                                     loc |-> loc[i], out |-> out[i],
                                     llm |-> llm[i]]) :
             /\ pc' = [pc EXCEPT ![i] = e.pc]
             /\ loc' = [loc EXCEPT ![i] = e.loc]
             /\ out' = [out EXCEPT ![i] = e.out]
             /\ llm' = [llm EXCEPT ![i] = e.llm]
       /\ sims' = IF /\ req[i].tipo = "debt"
                     /\ pc[i] = "deudas"
                     /\ loc[i].i <= Len(req[i].deudas)
                  THEN sims + 1 ELSE sims
       /\ UNCHANGED <<python, req>>

SpecConcurrente == InitConcurrente /\ [][PasoConcurrente]_vars

-----------------------------------------------------------------------------
(* Properties of calcular_amortizacion_deuda, checked under SpecAmort.     *)

\* payment <= principal * (annual_rate / 100 / 12) in exact arithmetic: the
\* three inputs are floats m * 2^e, so 1200 * payment and principal * rate
\* are compared as integers at their common exponent
PagoNoSuperaElInteres(rq) ==
    LET izq == BMul(rq.pago_mensual.m, BFromInt(1200))
        der == BMul(rq.monto.m, rq.tasa_anual.m)
        ei  == rq.pago_mensual.e
        ed  == rq.monto.e + rq.tasa_anual.e
        lo  == IF ei < ed THEN ei ELSE ed
    IN  BCmp(BShl(izq, ei - lo), BShl(der, ed - lo)) <= 0

\* C2: for every principal > 0, rate in [0, 200] and payment > 0, whenever
\* payment <= principal * (annual_rate / 100 / 12) the simulator returns
\* the PaymentTooLow outcome: error set and months, total_intereses,
\* total_pagado all -1.
C2_PagoInsuficienteFalla ==
    (pc = "fin" /\ PagoNoSuperaElInteres(req))
    => /\ out.error = ErrorPagoNoCubre
       /\ out.meses = -1
       /\ out.total_intereses = FInt(-1)
       /\ out.total_pagado = FInt(-1)

\* C3: the loop runs at most 600 iterations; an input whose payment covers
\* the interest but leaves a positive balance after 600 months returns the
\* success shape with months = 600 and the interest accumulated so far.
C3_TopeDe600Meses ==
    /\ loc.mes <= 600
    /\ (pc = "bucle" /\ loc.mes = 600) => (loc.error \/ ~AmortContinua(loc))
    /\ (pc = "fin" /\ ~loc.error /\ FGt(loc.saldo, FZero))
         => /\ out.meses = 600
            /\ out.error = None
            /\ out.total_intereses = Round2(loc.total_intereses)
            /\ out.total_pagado = Round2(FAdd(req.monto, loc.total_intereses))
    /\ (pc = "fin" /\ req.monto = FInt(100000) /\ req.pago_mensual = FInt(1001))
         => /\ out.meses = 600
            /\ out.total_intereses = FDec(56154166, 2)
            /\ out.total_pagado = FDec(66154166, 2)

\* 100000 at 12% paying 1001 has returned at the ceiling, balance unpaid
C3_Testigo ==
    /\ pc = "fin"
    /\ out.meses = 600
    /\ out.error = None
    /\ FGt(loc.saldo, FZero)
    /\ FGt(out.total_intereses, FZero)

\* C4: at zero rate a payment of principal / n pays the debt off in exactly
\* n months with no interest and no error.
C4_CuotasExactas ==
    (pc = "fin" /\ req.cuotas > 0)
    => /\ out.meses = req.cuotas
       /\ IsZero(out.total_intereses)
       /\ out.error = None


-----------------------------------------------------------------------------
(* Properties of analyze_debt, checked under SpecDebt.                     *)

PagosMinimosDe(deudas) ==
    SumaFloat([k \in 1..Len(deudas) |-> deudas[k].pago_minimo_mensual])

\* the positions of the debts whose simulation returns the error
Impagables(deudas) ==
    { k \in 1..Len(deudas) : Amortizar(deudas[k]).error # None }

Primera(S) == CHOOSE k \in S : \A j \in S : k <= j

\* C1: when the minimum payments of the request add up to more than the
\* income, the request ends with the InsufficientIncome error and no
\* amortization has been simulated by then, whatever debts are in the list.
C1_IngresoInsuficientePrimero ==
    (pc = "fin" /\ PagosSuperanIngreso(PagosMinimosDe(req.deudas),
                                       req.ingreso_mensual))
        => /\ out.status = 400
           /\ out.tipo = "InsufficientIncome"
           /\ sims = 0

\* C7: in a successful plan the priorities are 1..n in list order, and as
\* the priority number grows the annual rate never rises under avalancha
\* and the principal never falls under bola_nieve.
C7_OrdenDeEstrategia ==
    (pc = "fin" /\ out.status = 200)
        => LET da == out.deudas_analizadas
           IN  /\ \A k \in 1..Len(da) : da[k].prioridad = k
               /\ Len(da) = Len(req.deudas)
               /\ \A a, b \in 1..Len(da) :
                     da[a].prioridad < da[b].prioridad
                         => IF req.estrategia_preferida = "avalancha"
                            THEN FGe(da[a].tasa_interes_anual,
                                     da[b].tasa_interes_anual)
                            ELSE FLe(da[a].monto_total, da[b].monto_total)

\* a finished avalancha plan whose first priority is the debt that came
\* second in the request, because its rate is the higher one
C7_Testigo ==
    /\ pc = "fin"
    /\ out.status = 200
    /\ req.estrategia_preferida = "avalancha"
    /\ Len(req.deudas) = 2
    /\ FLt(req.deudas[1].tasa_interes_anual, req.deudas[2].tasa_interes_anual)
    /\ out.deudas_analizadas[1].nombre = req.deudas[2].nombre
    /\ out.deudas_analizadas[1].prioridad = 1

\* C8: when the simulation of some debt of the request returns the
\* payment-too-low error, the request ends with a 400 that names the first
\* such debt in input order, and nothing of a plan is returned.
C8_PrimeraDeudaImpagable ==
    pc = "fin"
        => \A imp \in {Impagables(req.deudas)} :
              imp # {}
                 => /\ out = [status |-> 400, tipo |-> "DebtUnpayable",
                              nombre |-> req.deudas[Primera(imp)].nombre,
                              error |-> ErrorPagoNoCubre]
                    /\ loc.plan = None
                    /\ llm = "idle"

\* a request with two unpayable debts has ended naming the first of them
C8_Testigo ==
    /\ pc = "fin"
    /\ Impagables(req.deudas) = {1, 2}
    /\ out.status = 400
    /\ out.tipo = "DebtUnpayable"
    /\ out.nombre = req.deudas[1].nombre


-----------------------------------------------------------------------------
(* Properties of calcular_interes_compuesto, checked under SpecCompuesto.  *)

\* C5: at a zero annual rate the function returns, without failing, a
\* final value of principal + contribution * months and a gain of 0.
C5_TasaCeroLineal ==
    (pc = "fin" /\ IsZero(req.tasa_anual))
        => /\ out.excepcion = None
           /\ out.valor_final =
                  FAdd(req.principal,
                       FMul(req.aportacion_mensual, FInt(req.tiempo_meses)))
           /\ out.ganancia = FZero

-----------------------------------------------------------------------------
(* Properties of recommend_investment, checked under SpecInvestment.       *)

RECURSIVE SumaPonderada(_)
SumaPonderada(instrumentos) ==
    IF instrumentos = << >> THEN FZero
    ELSE LET n == Len(instrumentos)
         IN  FAdd(SumaPonderada(SubSeq(instrumentos, 1, n - 1)),
                  FMul(FInt(instrumentos[n].porcentaje),
                       instrumentos[n].rendimiento))

\* sum(weight_i * return_i) / 100
PromedioPonderado(instrumentos) ==
    FDiv(SumaPonderada(instrumentos), FInt(100))

\* C6: for each profile the annual return that is returned, and that the
\* projection was compounded at, is the weighted average of the returns
\* of the instruments of the profile's template.
C6_RendimientoEsPromedioPonderado ==
    (pc = "fin" /\ out.status = 200)
        => /\ out.rendimiento_esperado_anual =
                  PromedioPonderado(Plantilla(req.perfil_riesgo).instrumentos)
           /\ out.proyeccion_valor_final \in
                  { r.valor_final :
                      r \in calcular_interes_compuesto(
                                req.monto_a_invertir,
                                PromedioPonderado(
                                    Plantilla(req.perfil_riesgo).instrumentos),
                                req.plazo_meses, FZero) }

-----------------------------------------------------------------------------
(* Properties of the narrative call, for the three endpoints.              *)

\* the locals of analyze_debt after the loop over the debts
RECURSIVE DebtTrasBucle(_, _)
DebtTrasBucle(lc, deudas) ==
    IF lc.i > Len(deudas) THEN lc
    ELSE DebtTrasBucle(DebtPasoDeuda(lc, deudas[lc.i],
                                     Amortizar(deudas[lc.i])).loc, deudas)

\* the response each endpoint builds from the request alone, with no
\* narrative in it
CifrasPresupuesto(rq) ==
    LET t == BudgetTotalesDe(rq)
    IN  RespuestaPresupuesto(
            [totales |-> t, categorias |-> CategoriasPresupuesto(rq, t),
             plan |-> PlanPresupuesto(rq, t), analisis_ia |-> None])

CifrasDeuda(rq) ==
    LET lc1 == DebtTrasBucle(DebtLocInicio, rq.deudas)
        lc2 == [lc1 EXCEPT !.deudas_analizadas =
                   AsignarPrioridades(
                       OrdenarDeudas(lc1.deudas_analizadas,
                                     rq.estrategia_preferida))]
    IN  RespuestaDeuda([lc2 EXCEPT !.plan = PlanDeuda(rq, lc2)])

\* the investment response for the projection the call obtained
CifrasInversionCon(rq, proyeccion) ==
    LET plantilla == Plantilla(rq.perfil_riesgo)
        lc1 == [InvLocInicio EXCEPT
                  !.rendimiento_esperado = plantilla.rendimiento_esperado,
                  !.portafolio = ConstruirPortafolio(plantilla.instrumentos,
                                                     rq.monto_a_invertir),
                  !.proyeccion = proyeccion]
    IN  RespuestaInversion(rq, [lc1 EXCEPT !.plan = PlanInversion(rq, lc1)])

\* one response for each value the C library's pow may give
CifrasInversion(rq) ==
    { CifrasInversionCon(rq, proyeccion) :
        proyeccion \in calcular_interes_compuesto(
                          rq.monto_a_invertir,
                          Plantilla(rq.perfil_riesgo).rendimiento_esperado,
                          rq.plazo_meses, FZero) }

\* the responses a request may get, the narrative left aside: one for a
\* budget or a debt plan, one for each value of the power for a portfolio
Cifras(rq) ==
    IF rq.tipo = "budget" THEN {CifrasPresupuesto(rq)}
    ELSE IF rq.tipo = "debt" THEN {CifrasDeuda(rq)}
    ELSE CifrasInversion(rq)

SinAnalisis(respuesta) == [respuesta EXCEPT !.analisis_ia = None]

\* C9: every field of a response other than analisis_ia is determined by
\* the request alone, so it is the same whether the narrative call answered
\* or raised; when it raised, analisis_ia is the fixed fallback message and
\* the request has still returned a successful response.
C9_FalloDeIANoCambiaCifras ==
    /\ (pc = "fin" /\ out.status = 200)
          => /\ llm \in {"ok", "raised"}
             /\ SinAnalisis(out) \in Cifras(req)
             /\ (llm = "raised") <=> (out.analisis_ia = Fallback)
             /\ (llm = "ok") <=> (out.analisis_ia \in TextosIA)
    /\ (pc = "fin" /\ llm = "raised") => out.status = 200
    /\ (pc = "respuesta" /\ llm = "raised") => loc.analisis_ia = Fallback

\* a request whose narrative call raised has returned its response with
\* the fallback message and its recommendations
C9_Testigo ==
    /\ pc = "fin"
    /\ llm = "raised"
    /\ out.status = 200
    /\ out.analisis_ia = Fallback
    /\ out.recomendaciones # << >>

\* C10: a request that has passed validation and reached the narrative
\* call eventually returns, also when the narrative service never replies.
C10_SolicitudValidaRetorna == (pc = "llm") ~> (pc = "fin")

-----------------------------------------------------------------------------
(* Outcome of analyze_debt for valid requests, checked under SpecDebt.     *)

\* C11: a request that passed field validation and has no unpayable debt
\* ends with the structured result (status 200), never with an error.
C11_ValidaSinImpagablesRetorna ==
    (pc = "fin" /\ Impagables(req.deudas) = {}) => out.status = 200

\* C11, amended: a request that passed field validation, has no unpayable
\* debt and whose minimum payments do not add up to more than the income
\* ends with the structured result: one analysis per debt, the totals of
\* the request, recommendations, and a narrative that is either the
\* service's text or the fallback message.
C11_RetornaSiElIngresoAlcanza ==
    (/\ pc = "fin"
     /\ FLe(PagosMinimosDe(req.deudas), req.ingreso_mensual)
     /\ Impagables(req.deudas) = {})
        => /\ out.status = 200
           /\ Len(out.deudas_analizadas) = Len(req.deudas)
           /\ out.total_pagos_minimos = Round2(PagosMinimosDe(req.deudas))
           /\ out.recomendaciones # << >>
           /\ out.analisis_ia \in TextosIA \cup {Fallback}

\* a plan returned for two debts whose minimum payments use up the whole
\* income, with the narrative degraded to the fallback
C11_Testigo ==
    /\ pc = "fin"
    /\ Len(req.deudas) = 2
    /\ Impagables(req.deudas) = {}
    /\ PagosMinimosDe(req.deudas) = req.ingreso_mensual
    /\ out.status = 200
    /\ out.analisis_ia = Fallback

-----------------------------------------------------------------------------
(* Properties of analyze_budget, checked under SpecBudget.                 *)

\* the amounts of the request as the handler first combines them
Disponible(rq) ==
    FSub(rq.ingresos_mensuales,
         FAdd(FAdd(rq.gastos_fijos, rq.gastos_variables), rq.gastos_hormiga))

EscenarioA ==
    [tipo |-> "budget", ingresos_mensuales |-> FInt(20000),
     gastos_fijos |-> FInt(8000), gastos_variables |-> FInt(5000),
     gastos_hormiga |-> FInt(0)]

\* C12: the overall status is "saludable" exactly when the disposable
\* income is at least 0.20 * income and the fixed expenses are at most
\* 0.50 * income; otherwise it is "critico" exactly when the disposable
\* income is <= 0; otherwise "precaucion".  Scenario A (20000, 8000, 5000,
\* 0) has disposable 7000, savings rate 35 and status "saludable".
C12_EstadoGeneral ==
    /\ (pc = "fin")
          => LET sano ==
                   /\ FGe(Disponible(req),
                          FMul(req.ingresos_mensuales, FDec(20, 2)))
                   /\ FLe(req.gastos_fijos,
                          FMul(req.ingresos_mensuales, FDec(50, 2)))
                 sin_margen == FLe(Disponible(req), FZero)
             IN  /\ (out.estado_general = "saludable") <=> sano
                 /\ (out.estado_general = "critico")
                        <=> (~sano /\ sin_margen)
                 /\ (out.estado_general = "precaucion")
                        <=> (~sano /\ ~sin_margen)
    /\ (pc = "fin" /\ req = EscenarioA)
          => /\ out.total_disponible = FInt(7000)
             /\ out.porcentaje_ahorro_actual = FInt(35)
             /\ out.estado_general = "saludable"

\* Scenario A has returned as healthy
C12_Testigo ==
    /\ pc = "fin"
    /\ req = EscenarioA
    /\ out.status = 200
    /\ out.estado_general = "saludable"

\* what the request spends on a spending category and the share of the
\* income the 50/30/20 rule recommends for it
GastoDe(rq, k) ==
    IF k = 1 THEN rq.gastos_fijos
    ELSE FAdd(rq.gastos_variables, rq.gastos_hormiga)

RecomendadoDe(rq, k) ==
    FMul(rq.ingresos_mensuales, IF k = 1 THEN FDec(50, 2) ELSE FDec(30, 2))

\* C13: for Necessities (1) and Wants (2) the status is "bien" exactly when
\* actual <= recommended, "excedido" exactly when actual - recommended is
\* at least 20% of the recommended amount, and "alerta" exactly when the
\* excess is above 0 and below 20% of the recommended amount.
C13_EstadoDeGasto ==
    (pc = "fin")
        => \A k \in {1, 2} :
              LET cat    == out.categorias[k]
                  exceso == FSub(GastoDe(req, k), RecomendadoDe(req, k))
                  quinto == FMul(RecomendadoDe(req, k), FDec(2, 1))
              IN  /\ cat.monto_actual = GastoDe(req, k)
                  /\ cat.monto_recomendado = RecomendadoDe(req, k)
                  /\ (cat.estado = "bien")
                        <=> FLe(cat.monto_actual, cat.monto_recomendado)
                  /\ (cat.estado = "excedido") <=> FGe(exceso, quinto)
                  /\ (cat.estado = "alerta")
                        <=> (FGt(exceso, FZero) /\ FLt(exceso, quinto))

\* a budget whose wants exceed the recommendation by exactly 20% of it
\* has returned with that category "excedido" and its necessities, equal
\* to the recommendation, "bien"
C13_Testigo ==
    /\ pc = "fin"
    /\ FSub(GastoDe(req, 2), RecomendadoDe(req, 2))
          = FMul(RecomendadoDe(req, 2), FDec(2, 1))
    /\ out.categorias[2].estado = "excedido"
    /\ GastoDe(req, 1) = RecomendadoDe(req, 1)
    /\ out.categorias[1].estado = "bien"

\* C14: the status of the Savings category (3) is "bien" exactly when the
\* disposable income is at least the recommended savings 0.20 * income,
\* "alerta" exactly when it is above 0 and below the recommended savings,
\* and "excedido" exactly when it is <= 0.
C14_EstadoDeAhorro ==
    (pc = "fin")
        => LET cat         == out.categorias[3]
               recomendado == FMul(req.ingresos_mensuales, FDec(20, 2))
           IN  /\ cat.monto_recomendado = recomendado
               /\ (cat.estado = "bien")
                     <=> FGe(Disponible(req), recomendado)
               /\ (cat.estado = "alerta")
                     <=> (FGt(Disponible(req), FZero)
                          /\ FLt(Disponible(req), recomendado))
               /\ (cat.estado = "excedido") <=> FLe(Disponible(req), FZero)

\* a budget that spends exactly its income has returned with the Savings
\* category "excedido"
C14_Testigo ==
    /\ pc = "fin"
    /\ IsZero(Disponible(req))
    /\ out.categorias[3].estado = "excedido"
    /\ out.categorias[3].nombre = "Ahorro e Inversion"

\* C15: in every category of a budget analysis (Necessities, Wants and
\* Savings; budgets with negative disposable income included) the
\* diferencia field is the category's monto_actual minus its
\* monto_recomendado.
C15_DiferenciaEsActualMenosRecomendado ==
    (pc = "fin")
        => \A k \in 1..3 :
              out.categorias[k].diferencia
                  = FSub(out.categorias[k].monto_actual,
                         out.categorias[k].monto_recomendado)

-----------------------------------------------------------------------------
(* Properties of calcular_regla_50_30_20, checked under SpecRegla.         *)

\* the rounding allowance of a sum of three products: 2^-51 of the income
Tolerancia(ingresos) == FMul(ingresos, [s |-> 0, m |-> <<1>>, e |-> -51])

\* necesidades + deseos + ahorro, added as floats
SumaRegla(regla) == FAdd(FAdd(regla.necesidades, regla.deseos), regla.ahorro)

\* C16: for every income > 0 the three amounts returned (50%, 30% and 20%
\* of the income) add up to the income, within the rounding of the float
\* operations.
C16_ReglaSumaElIngreso ==
    (pc = "fin")
        => /\ FLe(FSub(SumaRegla(out), req.ingresos),
                  Tolerancia(req.ingresos))
           /\ FLe(FSub(req.ingresos, SumaRegla(out)),
                  Tolerancia(req.ingresos))
           /\ out.necesidades = FDiv(req.ingresos, FInt(2))

\* the rule has returned for an income of 31, whose three amounts add up
\* to a float just below 31
C16_Testigo ==
    /\ pc = "fin"
    /\ req.ingresos = FInt(31)
    /\ FLt(SumaRegla(out), req.ingresos)
    /\ FGt(out.ahorro, FInt(6))

-----------------------------------------------------------------------------
(* Properties of the portfolio of recommend_investment, checked under      *)
(* SpecInvestment.                                                         *)

Porcentajes(portafolio) ==
    [k \in 1..Len(portafolio) |-> portafolio[k].porcentaje_portafolio]

Montos(portafolio) ==
    [k \in 1..Len(portafolio) |-> portafolio[k].monto_asignado]

\* C17: for each of the three risk profiles the weight percentages of the
\* instruments of the returned portfolio add up to exactly 100.
C17_PorcentajesSuman100 ==
    (pc = "fin" /\ out.status = 200)
        => /\ Len(out.portafolio_sugerido) >= 3
           /\ SumaFloat(Porcentajes(out.portafolio_sugerido)) = FInt(100)

\* a moderado portfolio of four instruments has been returned
C17_Testigo ==
    /\ pc = "fin"
    /\ out.status = 200
    /\ req.perfil_riesgo = "moderado"
    /\ Len(out.portafolio_sugerido) = 4
    /\ out.portafolio_sugerido[2].porcentaje_portafolio = FInt(35)

\* half a cent for each amount rounded to 2 decimals, and the rounding of
\* the float additions
ToleranciaDeCentavos(n, total) ==
    FAdd(FMul(FInt(n), FDec(5, 3)), Tolerancia(total))

\* C18: for every total amount > 0 and each risk profile the assigned
\* amounts (total * weight / 100, each rounded to 2 decimals) add up to the
\* total amount within the rounding: half a cent per instrument.
C18_MontosSumanElTotal ==
    (pc = "fin" /\ out.status = 200)
        => LET suma == SumaFloat(Montos(out.portafolio_sugerido))
               tol  == ToleranciaDeCentavos(Len(out.portafolio_sugerido),
                                            req.monto_a_invertir)
           IN  /\ out.monto_total = req.monto_a_invertir
               /\ FLe(FSub(suma, out.monto_total), tol)
               /\ FLe(FSub(out.monto_total, suma), tol)

\* an agresivo portfolio for 12345.67 has been returned whose amounts add
\* up to one cent less than the total
C18_Testigo ==
    /\ pc = "fin"
    /\ out.status = 200
    /\ req.perfil_riesgo = "agresivo"
    /\ req.monto_a_invertir = FDec(1234567, 2)
    /\ FLt(SumaFloat(Montos(out.portafolio_sugerido)), out.monto_total)

-----------------------------------------------------------------------------
(* Properties of the plan of analyze_debt, checked under SpecDebt.         *)

OtraEstrategia(estrategia) ==
    IF estrategia = "avalancha" THEN "bola_nieve" ELSE "avalancha"

\* what analyze_debt returns for the same debts and income under the
\* other strategy
ConOtraEstrategia(rq) ==
    CifrasDeuda([rq EXCEPT !.estrategia_preferida =
                              OtraEstrategia(rq.estrategia_preferida)])

\* the analysed debts without their priorities and their order
SinPrioridad(deudas) ==
    { [deudas[k] EXCEPT !.prioridad = 0] : k \in 1..Len(deudas) }

\* C19: for the same debts and income, the plan returned under avalancha
\* and the plan returned under bola_nieve give every debt the same
\* recommended payment, months to payoff, monthly interest and total
\* interest, and have the same total principal, total minimum payments,
\* projected months and total interest; priorities and list order apart.
C19_EstrategiaSoloOrdena ==
    (pc = "fin" /\ out.status = 200)
        => LET otra == ConOtraEstrategia(req)
           IN  /\ otra.status = 200
               /\ SinPrioridad(out.deudas_analizadas)
                     = SinPrioridad(otra.deudas_analizadas)
               /\ \A k \in 1..Len(out.deudas_analizadas) :
                     \E j \in 1..Len(req.deudas) :
                        /\ out.deudas_analizadas[k].nombre
                              = req.deudas[j].nombre
                        /\ out.deudas_analizadas[k].pago_recomendado
                              = req.deudas[j].pago_minimo_mensual
               /\ out.total_deudas = otra.total_deudas
               /\ out.total_pagos_minimos = otra.total_pagos_minimos
               /\ out.proyeccion_meses_total = otra.proyeccion_meses_total
               /\ out.total_intereses_proyectados
                     = otra.total_intereses_proyectados

\* the per-debt total interest in cents, added exactly
RECURSIVE CentavosDeInteres(_)
CentavosDeInteres(deudas) ==
    IF deudas = << >> THEN << >>
    ELSE BAdd(CentavosDeInteres(SubSeq(deudas, 1, Len(deudas) - 1)),
              RoundScaled(deudas[Len(deudas)].total_intereses_a_pagar, 100))

\* C20: in every successful response the projected total months is the
\* largest meses_para_liquidar of the analysed debts, and the total
\* projected interest is the sum of their total_intereses_a_pagar.
C20_ProyeccionEsMaximoYSuma ==
    (pc = "fin" /\ out.status = 200)
        => LET da == out.deudas_analizadas
           IN  /\ \E k \in 1..Len(da) :
                     out.proyeccion_meses_total = da[k].meses_para_liquidar
               /\ \A k \in 1..Len(da) :
                     da[k].meses_para_liquidar <= out.proyeccion_meses_total
               /\ out.total_intereses_proyectados
                     = FDiv(FRound(0, CentavosDeInteres(da), 0, FALSE),
                            FInt(100))

\* the cents the response reports as total interest
CentavosDevueltos(respuesta) ==
    RoundScaled(respuesta.total_intereses_proyectados, 100)

\* how far the reported total may be from the exact sum, in cents: the
\* n - 1 float additions and the rounding of the response lose at most
\* n * sum * 2^-50, which is nothing while n * sum < 2^50 cents
MargenDeSuma(deudas) ==
    BShr(BMulSmall(CentavosDeInteres(deudas), Len(deudas)), 50)

\* C20 (amended): in every successful response the projected total months
\* is the largest meses_para_liquidar of the analysed debts, and the total
\* projected interest is a 2-decimal float that differs from the exact sum
\* of their total_intereses_a_pagar by at most n * sum * 2^-50: it is the
\* exact sum whenever n * sum is below 2^50 cents.
C20_SumaSalvoRedondeo ==
    (pc = "fin" /\ out.status = 200)
        => LET da       == out.deudas_analizadas
               exacto   == CentavosDeInteres(da)
               devuelto == CentavosDevueltos(out)
           IN  /\ \E k \in 1..Len(da) :
                     out.proyeccion_meses_total = da[k].meses_para_liquidar
               /\ \A k \in 1..Len(da) :
                     da[k].meses_para_liquidar <= out.proyeccion_meses_total
               /\ Round2(out.total_intereses_proyectados)
                     = out.total_intereses_proyectados
               /\ BCmp(IF BCmp(devuelto, exacto) >= 0
                       THEN BSub(devuelto, exacto)
                       ELSE BSub(exacto, devuelto),
                       MargenDeSuma(da)) <= 0

\* a plan for three debts has been returned whose projection is the 600
\* months of one of them, the other two being paid off sooner, and whose
\* total interest is not the exact sum of the three
C20_Testigo ==
    /\ pc = "fin"
    /\ out.status = 200
    /\ Len(out.deudas_analizadas) = 3
    /\ out.proyeccion_meses_total = 600
    /\ \E k \in 1..3 : out.deudas_analizadas[k].meses_para_liquidar < 600
    /\ CentavosDevueltos(out) # CentavosDeInteres(out.deudas_analizadas)

\* the priority the response gives to the debt of that name
PrioridadDe(respuesta, nombre) ==
    LET da == respuesta.deudas_analizadas
    IN  da[CHOOSE k \in 1..Len(da) : da[k].nombre = nombre].prioridad

\* two debts of the request tie on the key the strategy sorts by
Empatan(estrategia, x, y) ==
    IF estrategia = "avalancha"
    THEN x.tasa_interes_anual = y.tasa_interes_anual
    ELSE x.monto_total = y.monto_total

\* C21: when two debts tie on the sort key (equal annual rate under
\* avalancha, equal principal under bola_nieve), the one that comes earlier
\* in the input list gets the smaller priority number.
C21_EmpateEnOrdenDeEntrada ==
    (pc = "fin" /\ out.status = 200)
        => \A i, j \in 1..Len(req.deudas) :
              (i < j /\ Empatan(req.estrategia_preferida,
                                req.deudas[i], req.deudas[j]))
                 => PrioridadDe(out, req.deudas[i].nombre)
                       < PrioridadDe(out, req.deudas[j].nombre)

\* a plan has been returned for two debts that tie on the key of the
\* strategy; the first of the request has priority 1
C21_Testigo ==
    /\ pc = "fin"
    /\ out.status = 200
    /\ Len(req.deudas) = 2
    /\ Empatan(req.estrategia_preferida, req.deudas[1], req.deudas[2])
    /\ out.deudas_analizadas[1].nombre = req.deudas[1].nombre
    /\ out.deudas_analizadas[1].prioridad = 1

\* C22: in every successful response the priorities are exactly the ranks
\* 1..n, one debt each and none left at the placeholder 0; the analysed
\* debts are listed in priority order; and entry i of the payoff-order
\* list carries rank i and the name of the debt of priority i.
C22_PrioridadesSonRangos ==
    (pc = "fin" /\ out.status = 200)
        => LET da == out.deudas_analizadas
               op == out.orden_pago_sugerido
               n  == Len(req.deudas)
           IN  /\ Len(da) = n
               /\ Len(op) = n
               /\ { da[k].prioridad : k \in 1..n } = 1..n
               /\ \A k \in 1..n : da[k].prioridad # 0
               /\ \A a, b \in 1..n :
                     a < b => da[a].prioridad < da[b].prioridad
               /\ { da[k].nombre : k \in 1..n }
                     = { req.deudas[k].nombre : k \in 1..n }
               /\ \A i \in 1..n :
                     /\ op[i].prioridad = i
                     /\ \E k \in 1..n : /\ da[k].prioridad = i
                                         /\ da[k].nombre = op[i].nombre

\* a plan for two debts has been returned whose payoff order ends with
\* rank 2 and the name of the debt of priority 2, which came first in the
\* request
C22_Testigo ==
    /\ pc = "fin"
    /\ out.status = 200
    /\ Len(out.orden_pago_sugerido) = 2
    /\ out.orden_pago_sugerido[2].prioridad = 2
    /\ out.orden_pago_sugerido[2].nombre = req.deudas[1].nombre
    /\ PrioridadDe(out, req.deudas[1].nombre) = 2

\* the handler is past "Calcular dinero extra para deudas"
DineroExtraCalculado ==
    \/ pc \in {"llm", "await", "respuesta"}
    \/ pc = "fin" /\ out.status = 200

\* C23: wherever the extra capacity has been computed it is income minus
\* total minimum payments and is >= 0; when it is 0 the second
\* recommendation is the "barely covering the minimums" one, and when it
\* is positive it is the one that names the debt of priority 1.
C23_DineroExtraNoNegativo ==
    /\ DineroExtraCalculado
          => /\ loc.plan.dinero_extra
                   = FSub(req.ingreso_mensual, PagosMinimosDe(req.deudas))
             /\ FGe(loc.plan.dinero_extra, FZero)
    /\ (pc = "fin" /\ out.status = 200)
          => IF IsZero(loc.plan.dinero_extra)
             THEN out.recomendaciones[2] = [msg |-> "apenas"]
             ELSE /\ out.recomendaciones[2].msg = "extra"
                  /\ out.recomendaciones[2].nombre
                        = out.deudas_analizadas[1].nombre
                  /\ out.recomendaciones[2].monto
                        = Fmt(loc.plan.dinero_extra, 2)

\* a plan has been returned for a request whose minimum payments use up
\* the income, with the "barely covering" recommendation
C23_Testigo ==
    /\ pc = "fin"
    /\ out.status = 200
    /\ IsZero(loc.plan.dinero_extra)
    /\ out.recomendaciones[2].msg = "apenas"
    /\ Len(req.deudas) >= 1

-----------------------------------------------------------------------------
(* Two requests in flight, checked under SpecConcurrente.                  *)

\* what a request may return when it is the only one served, the
\* narrative text left aside
RespuestaSola(rq) ==
    IF rq.tipo = "debt" /\ Impagables(rq.deudas) # {}
    THEN {[status |-> 400, tipo |-> "DebtUnpayable",
           nombre |-> rq.deudas[Primera(Impagables(rq.deudas))].nombre,
           error |-> ErrorPagoNoCubre]}
    ELSE IF rq.tipo = "debt"
            /\ PagosSuperanIngreso(PagosMinimosDe(rq.deudas),
                                   rq.ingreso_mensual)
    THEN {ErrorIngresoInsuficiente(PagosMinimosDe(rq.deudas),
                                   rq.ingreso_mensual)}
    ELSE Cifras(rq)

\* C24: whatever the interleaving of two requests, each response has, in
\* every field but the narrative text, the values its request produces
\* when it is served alone.
C24_SolicitudesNoInterfieren ==
    \A i \in 1..2 :
       pc[i] = "fin"
          => IF out[i].status = 200
             THEN SinAnalisis(out[i]) \in RespuestaSola(req[i])
             ELSE out[i] \in RespuestaSola(req[i])

\* two different debt requests were in flight together and both have
\* returned their plan, one with the narrative text and one without
C24_Testigo ==
    /\ pc = <<"fin", "fin">>
    /\ req[1].tipo = "debt" /\ req[2].tipo = "debt"
    /\ req[1] # req[2]
    /\ out[1].status = 200 /\ out[2].status = 200
    /\ llm = <<"ok", "raised">>

-----------------------------------------------------------------------------
(* Records of analyze_debt after their construction, under SpecDebt.       *)

\* C25: every DebtAnalysis record the handler holds has, in every field
\* and the priority among them, the value it was constructed with.
C25_RegistrosComoSeCrearon ==
    \A k \in 1..Len(loc.deudas_analizadas) :
       \E j \in 1..Len(req.deudas) :
          loc.deudas_analizadas[k] =
              NuevaDeudaAnalisis(req.deudas[j], Amortizar(req.deudas[j]))

-----------------------------------------------------------------------------
(* calcular_interes_compuesto without contributions, under SpecCompuesto.  *)

\* fixed point: a natural x stands for x / 2^FixBits, ten limbs
FixBits == 10 * LimbBits

\* an interval [lo, hi] of fixed-point numbers that holds the product of
\* a number in a and a number in b
IntervaloMul(a, b) ==
    CHOOSE x \in { [lo |-> BShr(BMul(u.lo, v.lo), FixBits),
                    hi |-> BAdd(BShr(BMul(u.hi, v.hi), FixBits), <<1>>)] :
                      u \in {a}, v \in {b} } : TRUE

\* an interval that holds the square of every number in a
IntervaloCuadrado(a) == IntervaloMul(a, a)

RECURSIVE IntervaloPow(_, _)
\* an interval that holds x^n for every x in a, n >= 1, by squaring
IntervaloPow(a, n) ==
    IF n = 1 THEN a
    ELSE IF n % 2 = 1 THEN IntervaloMul(a, IntervaloPow(a, n - 1))
    ELSE IntervaloCuadrado(IntervaloPow(a, n \div 2))

\* |a - b| of naturals
BDist(a, b) == IF BCmp(a, b) = -1 THEN BSub(b, a) ELSE BSub(a, b)

\* the cents of a non-negative amount
Centavos(x) == RoundScaled(x, 100)

\* an interval that holds 1 + tasa_anual/1200 = N / 120000, for a rate in
\* hundredths of a percent, N = 120000 + 100 * tasa_anual
\* (120000 = 64 * 1875)
FactorMensual(tasa_anual) ==
    LET q == BDivSmall(BShl(BAdd(BFromInt(120000), Centavos(tasa_anual)),
                            FixBits - 6),
                       1875).q
    IN  [lo |-> q, hi |-> BAdd(q, <<1>>)]

\* centavos is within half a cent of P * x, P the cents of the principal
\* and x a fixed-point number
AMedioCentavo(centavos, principal, x) ==
    BCmp(BMulSmall(BDist(BMul(Centavos(principal), x),
                         BShl(centavos, FixBits)), 2),
         BShl(<<1>>, FixBits)) # 1

\* centavos is the amount principal * (1 + tasa_anual/1200)^meses rounded
\* to whole cents: it is within half a cent of the product at both ends
\* of an interval that holds the power, hence at the power itself
EsValorFuturoRedondeado(centavos, principal, tasa_anual, meses) ==
    \A r \in { IntervaloPow(FactorMensual(tasa_anual), meses) } :
       /\ AMedioCentavo(centavos, principal, r.lo)
       /\ AMedioCentavo(centavos, principal, r.hi)

\* C26: without contributions the value returned is
\* principal * (1 + rate/1200)^months rounded to cents, the total
\* contributed is the principal, and the gain is the final value minus
\* the principal up to one cent of rounding; 10000 at 12% for 12 months
\* gives 11268.25 and 1268.25.
C26_InteresCompuestoSinAportacion ==
    (pc = "fin" /\ IsZero(req.aportacion_mensual))
        => /\ out.excepcion = None
           /\ out.valor_final.s = 0
           /\ EsValorFuturoRedondeado(Centavos(out.valor_final),
                                      req.principal, req.tasa_anual,
                                      req.tiempo_meses)
           /\ out.total_aportado = req.principal
           /\ out.ganancia.s = 0
           /\ BCmp(BDist(BAdd(Centavos(out.ganancia),
                              Centavos(req.principal)),
                         Centavos(out.valor_final)),
                   <<1>>) # 1
           /\ (req.principal = FInt(10000) /\ req.tasa_anual = FInt(12)
                 /\ req.tiempo_meses = 12)
                 => /\ out.valor_final = FDec(1126825, 2)
                    /\ out.ganancia = FDec(126825, 2)

\* 10000 at 12% for 12 months without contributions has returned
\* 11268.25 with a gain of 1268.25
C26_Testigo ==
    /\ pc = "fin"
    /\ req.principal = FInt(10000) /\ req.tasa_anual = FInt(12)
    /\ req.tiempo_meses = 12 /\ IsZero(req.aportacion_mensual)
    /\ out.excepcion = None
    /\ out.valor_final = FDec(1126825, 2)
    /\ out.ganancia = FDec(126825, 2)
    /\ out.total_aportado = FInt(10000)

-----------------------------------------------------------------------------
(* The loop of calcular_amortizacion_deuda month by month, under           *)
(* SpecAmort.                                                              *)

\* the payment exceeds the interest of the first month
CubreElPrimerMes ==
    FGt(req.pago_mensual, FMul(req.monto, TasaMensual(req.tasa_anual)))

\* the payment exceeds the interest that the balance saldo generates
CubreElInteres(saldo) ==
    FGt(req.pago_mensual, FMul(saldo, TasaMensual(req.tasa_anual)))

\* the principal repaid on the balance saldo is lost in the subtraction:
\* it is at most saldo * 2^-53, half the spacing of the floats at saldo
SeAbsorbe(saldo) ==
    FLe(FSub(req.pago_mensual, FMul(saldo, TasaMensual(req.tasa_anual))),
        FMul(saldo, [s |-> 0, m |-> <<1>>, e |-> -53]))

\* what every iteration and the return keep, given how the balance must
\* compare after an iteration
MesAMes(baja) ==
    /\ (pc = "bucle" /\ pc' = "bucle")
          => /\ loc'.error => (loc.mes = 0 /\ ~CubreElPrimerMes)
             /\ CubreElPrimerMes
                   => /\ ~loc'.error
                      /\ loc'.mes = loc.mes + 1
                      /\ baja
                      /\ loc'.saldo.s = 0
                      /\ IsZero(loc'.saldo) \/ CubreElInteres(loc'.saldo)
    /\ (pc = "bucle" /\ pc' = "fin" /\ CubreElPrimerMes)
          => /\ out'.error = None
             /\ out'.meses >= 1
             /\ out'.meses <= 600

\* C27 as stated: when the payment exceeds the interest of the first
\* month, every iteration leaves a strictly smaller balance.
C27_SaldoSiempreBaja ==
    [][MesAMes(FLt(loc'.saldo, loc.saldo))]_vars

\* C27: the error can only be raised in the first month; when the payment
\* exceeds the interest of the first month, every iteration leaves a
\* balance that is not negative, not larger than before and strictly
\* smaller unless the principal repaid is absorbed by the subtraction,
\* the payment exceeds the interest of the new balance, and the function
\* returns without error with 1 <= months <= 600.
C27_SaldoNuncaSube ==
    [][MesAMes(/\ FLe(loc'.saldo, loc.saldo)
               /\ FLt(loc'.saldo, loc.saldo) \/ SeAbsorbe(loc.saldo))]_vars

\* a debt is in its third month or later with a smaller, positive balance
C27_Testigo ==
    /\ pc = "bucle"
    /\ CubreElPrimerMes
    /\ loc.mes >= 3
    /\ ~loc.error
    /\ FGt(loc.saldo, FZero)
    /\ FLt(loc.saldo, req.monto)

-----------------------------------------------------------------------------
(* The narrative call of analyze_debt, under SpecDebt.                     *)

\* the service has been called only with everything computed: every debt
\* simulated and payable, the payments within the income, the priorities
\* assigned and the aggregates in place
LlamadaTrasLosCalculos ==
    (llm # "idle")
        => /\ pc \in {"await", "respuesta", "fin"}
           /\ sims = Len(req.deudas)
           /\ Impagables(req.deudas) = {}
           /\ ~PagosSuperanIngreso(PagosMinimosDe(req.deudas),
                                   req.ingreso_mensual)
           /\ Len(loc.deudas_analizadas) = Len(req.deudas)
           /\ \A k \in 1..Len(loc.deudas_analizadas) :
                 loc.deudas_analizadas[k].prioridad = k
           /\ loc.plan = PlanDeuda(req, loc)

\* a request that has failed never called the service; one that has
\* succeeded called it
LlamadaSoloSiTieneExito ==
    pc = "fin" => IF out.status = 200 THEN llm \in {"ok", "raised"}
                  ELSE llm = "idle"

\* the call is made from the call site only, and its state moves
\* idle -> pending -> ok or raised and never back: one call at most
UnaSolaLlamada ==
    /\ llm' # llm
          => \/ llm = "idle" /\ llm' = "pending" /\ pc = "llm"
             \/ llm = "pending" /\ llm' \in {"ok", "raised"}
    /\ pc = "llm" => pc' = "await"

\* C28: analyze_debt calls the narrative service at most once, only after
\* every debt has been simulated, the income validated and the aggregates
\* computed, and never in a request that fails with an unpayable debt or
\* an insufficient income.
C28_LlamadaUnicaYAlFinal ==
    /\ [](LlamadaTrasLosCalculos /\ LlamadaSoloSiTieneExito)
    /\ [][UnaSolaLlamada]_vars

\* a request with two debts is suspended in its call to the service,
\* with its plan computed
C28_Testigo ==
    /\ pc = "await"
    /\ llm = "pending"
    /\ Len(req.deudas) = 2
    /\ sims = 2
    /\ loc.plan = PlanDeuda(req, loc)

-----------------------------------------------------------------------------
(* The overall status against the category statuses, under SpecBudget.     *)

\* C29: in a budget response the overall status is "critico" exactly when
\* the Savings category (3) is "excedido", and "saludable" exactly when
\* the Necessities (1) and the Savings categories are both "bien"; the
\* status of the Wants category (2) plays no part.
C29_EstadoGeneralSegunCategorias ==
    (pc = "fin")
        => /\ (out.estado_general = "critico")
                  <=> (out.categorias[3].estado = "excedido")
           /\ (out.estado_general = "saludable")
                  <=> /\ out.categorias[1].estado = "bien"
                      /\ out.categorias[3].estado = "bien"
           /\ (out.estado_general = "precaucion")
                  <=> /\ out.categorias[3].estado # "excedido"
                      /\ \/ out.categorias[1].estado # "bien"
                         \/ out.categorias[3].estado # "bien"

\* a budget has returned as healthy with its wants "excedido"
C29_Testigo ==
    /\ pc = "fin"
    /\ out.status = 200
    /\ out.estado_general = "saludable"
    /\ out.categorias[1].estado = "bien"
    /\ out.categorias[2].estado = "excedido"
    /\ out.categorias[3].estado = "bien"

-----------------------------------------------------------------------------
(* The failures of analyze_debt as the caller sees them, under SpecDebt.   *)

\* C30: a request with an unpayable debt or with payments above the
\* income ends with status 400 and the message of its failure (the name
\* of the debt and the simulator's text, or the two amounts); no request
\* ends with status 500, and a request without such a failure ends with
\* status 200.
C30_FallosDeDominioSon400 ==
    (pc = "fin")
        => \A imp \in {Impagables(req.deudas)} :
           \A supera \in {PagosSuperanIngreso(PagosMinimosDe(req.deudas),
                                              req.ingreso_mensual)} :
              /\ out.status \in {200, 400}
              /\ (imp # {})
                    => /\ out.status = 400
                       /\ out.tipo = "DebtUnpayable"
                       /\ out.nombre \in { req.deudas[k].nombre : k \in imp }
                       /\ out.error = ErrorPagoNoCubre
              /\ (imp = {} /\ supera)
                    => out = [status |-> 400, tipo |-> "InsufficientIncome",
                              pagos |-> Fmt(PagosMinimosDe(req.deudas), 2),
                              ingreso |-> Fmt(req.ingreso_mensual, 2)]
              /\ (imp = {} /\ ~supera) => out.status = 200

\* a request with two payable debts whose payments exceed the income has
\* ended with the 400 of the income check, after both simulations
C30_Testigo ==
    /\ pc = "fin"
    /\ Len(req.deudas) = 2
    /\ sims = 2
    /\ out.status = 400
    /\ out.tipo = "InsufficientIncome"
    /\ llm = "idle"


=============================================================================
